---- MODULE Spec2Model ----
(***************************************************************************)
(* docusaurus-plugin-glossary: the glossary validator                      *)
(* (src/validation.ts) and the remark term scanner                         *)
(* (src/remark/glossary-terms.js, and its CommonJS copy).                  *)
(*                                                                         *)
(* Strings are sequences of one-character strings; JavaScript values are   *)
(* records tagged with their kind; tree nodes are records that carry an    *)
(* `id`, the identity of the JavaScript object.                            *)
(***************************************************************************)
EXTENDS Integers, Sequences, FiniteSets, TLC

VARIABLES
    data,          \* validateGlossaryData: the `data` argument of the last call
    options,       \* validateGlossaryData: options.throwOnError of the last call
    result,        \* validateGlossaryData: what the last call returned or threw
    glossaryTerms, \* remarkGlossaryTerms: the `terms` option it was built with
    sortedTerms,   \* remarkGlossaryTerms: the closure's sortedTerms
    built,         \* whether remarkGlossaryTerms has returned a transformer
    tree,          \* the mdast tree handed to the transformer
    before,        \* the tree as it was when the last transformer call began
    calls,         \* transformer calls made on the tree
    injected,      \* import nodes spliced into tree.children so far
    log,           \* the visitor invocations of the last transformer call
    thrown,        \* whether the last transformer call raised a TypeError
    routePath,     \* remarkGlossaryTerms: the `routePath` option
    variant,       \* which copy of the plugin runs: "esm" or "cjs"
    glossaryCache, \* the module's glossaryCache: resolved path -> entry
    heap,          \* the term arrays the loads have made, by identity
    files,         \* the glossary files on disk, by resolved path
    now,           \* what Date.now() gives
    load,          \* what the last call of remarkGlossaryTerms did
    cursor,        \* the walk of a transformer call: child indexes from the root
    visit          \* the walk: whether it runs, usedGlossaryTerm, next object id

vars == <<data, options, result, glossaryTerms, sortedTerms, built,
          tree, before, calls, injected, log, thrown, routePath, variant,
          glossaryCache, heap, files, now, load, cursor, visit>>

vvars == <<data, options, result>>
cvars == <<glossaryCache, heap, files, now, load>>
wvars == <<cursor, visit>>

\* no transformer call is running
NoWalk == [active |-> FALSE, used |-> FALSE, next |-> 0]
WalkIdle == cursor = <<>> /\ visit = NoWalk
svars == <<glossaryTerms, sortedTerms, built, tree, before, calls, injected, log, thrown,
           routePath, variant>>

-----------------------------------------------------------------------------
(* Bounds                                                                  *)

MaxLoads == 2
MaxTerms == 3
MaxTextLen == 4
MaxCalls == 2

-----------------------------------------------------------------------------
(* Strings                                                                 *)

\* `undefined` where a string is expected
Undefined == <<"undefined">>

\* /\w/ : [A-Za-z0-9_]
WordChars ==
    {"a", "b", "c", "d", "e", "i", "k", "p", "s", "x",
     "A", "B", "C", "D", "E", "I", "K", "P", "S", "X", "0", "1", "_"}

IsWordChar(c) == c \in WordChars

WhiteSpace == {" "}

LowerOf(c) ==
    CASE c = "A" -> "a" [] c = "B" -> "b" [] c = "C" -> "c" [] c = "D" -> "d"
      [] c = "E" -> "e" [] c = "I" -> "i" [] c = "K" -> "k" [] c = "P" -> "p"
      [] c = "S" -> "s" [] c = "X" -> "x" [] OTHER -> c

\* LATIN CAPITAL LETTER I WITH DOT ABOVE, whose lower case is two code units:
\* "i" followed by COMBINING DOT ABOVE; neither code point is matched by \w
DottedI == "U+0130"
CombiningDot == "U+0307"

\* String.prototype.toLowerCase: the result can be longer than the string
RECURSIVE toLowerCase(_)
toLowerCase(s) ==
    IF s = <<>> THEN <<>>
    ELSE (IF Head(s) = DottedI THEN <<"i", CombiningDot>> ELSE <<LowerOf(Head(s))>>)
         \o toLowerCase(Tail(s))

RECURSIVE trimStart(_)
trimStart(s) ==
    IF s # <<>> /\ Head(s) \in WhiteSpace THEN trimStart(Tail(s)) ELSE s

RECURSIVE trimEnd(_)
trimEnd(s) ==
    IF s # <<>> /\ s[Len(s)] \in WhiteSpace
    THEN trimEnd(SubSeq(s, 1, Len(s) - 1)) ELSE s

trim(s) == trimEnd(trimStart(s))

\* String.prototype.substring(from, to), 0-based, `to` exclusive
substring(s, from, to) ==
    LET clamp(n) == IF n < 0 THEN 0 ELSE IF n > Len(s) THEN Len(s) ELSE n
        lo == IF clamp(from) <= clamp(to) THEN clamp(from) ELSE clamp(to)
        hi == IF clamp(from) <= clamp(to) THEN clamp(to) ELSE clamp(from)
    IN SubSeq(s, lo + 1, hi)

-----------------------------------------------------------------------------
(* JavaScript values of the validator's untrusted input                    *)

\* a value: its kind, its characters when a string, its elements when an array
JV(t, s, a) == [t |-> t, s |-> s, a |-> a]
Absent == JV("absent", <<>>, <<>>)
JUndef == JV("undefined", <<>>, <<>>)
JNull == JV("null", <<>>, <<>>)
JNum == JV("number", <<>>, <<>>)
JStr(s) == JV("string", s, <<>>)
JArr(a) == JV("array", <<>>, a)

typeof(v) ==
    CASE v.t = "undefined" -> "undefined"
      [] v.t = "number" -> "number"
      [] v.t = "string" -> "string"
      [] OTHER -> "object"

\* an element of `terms`: a non-object value, or an object with these own fields
Elem(t, term, definition, abbreviation, relatedTerms, id) ==
    [t |-> t, term |-> term, definition |-> definition,
     abbreviation |-> abbreviation, relatedTerms |-> relatedTerms, id |-> id]
NonObj(t) == Elem(t, Absent, Absent, Absent, Absent, Absent)
Obj(term, definition, abbreviation, relatedTerms, id) ==
    Elem("object", term, definition, abbreviation, relatedTerms, id)

\* the `data` argument: its kind, whether it has `terms`, and the `terms` value
Data(t, hasTerms, termsT, terms) ==
    [t |-> t, hasTerms |-> hasTerms, termsT |-> termsT, terms |-> terms]

\* a ValidationError: field path root[index].prop[sub] (-1: no index), the
\* message, and the typeof the message reports
Err(root, index, prop, sub, message, got) ==
    [root |-> root, index |-> index, prop |-> prop, sub |-> sub,
     message |-> message, got |-> got, first |-> -1]

\* the duplicate error: "Duplicate term ... (first occurrence at index first)"
DupErr(index, first) ==
    [root |-> "terms", index |-> index, prop |-> "term", sub |-> -1,
     message |-> "Duplicate term", got |-> "", first |-> first]

-----------------------------------------------------------------------------
(* validateTerm                                                            *)

\* mutant: the check of an empty (whitespace-only) term is left out
termFieldErrors_noEmptyCheck(termObj, index) ==
    IF termObj.term.t = "absent"
    THEN <<Err("terms", index, "term", -1, "Missing required field", "")>>
    ELSE IF typeof(termObj.term) # "string"
    THEN <<Err("terms", index, "term", -1, "must be a string", typeof(termObj.term))>>
    ELSE <<>>

termFieldErrors(termObj, index) ==
    IF termObj.term.t = "absent"
    THEN <<Err("terms", index, "term", -1, "Missing required field", "")>>
    ELSE IF typeof(termObj.term) # "string"
    THEN <<Err("terms", index, "term", -1, "must be a string", typeof(termObj.term))>>
    ELSE IF trim(termObj.term.s) = <<>>
    THEN <<Err("terms", index, "term", -1, "cannot be empty", "")>>
    ELSE <<>>

definitionFieldErrors(termObj, index) ==
    IF termObj.definition.t = "absent"
    THEN <<Err("terms", index, "definition", -1, "Missing required field", "")>>
    ELSE IF typeof(termObj.definition) # "string"
    THEN <<Err("terms", index, "definition", -1, "must be a string",
               typeof(termObj.definition))>>
    ELSE <<>>

abbreviationFieldErrors(termObj, index) ==
    IF termObj.abbreviation.t # "absent" /\ termObj.abbreviation.t # "undefined"
       /\ typeof(termObj.abbreviation) # "string"
    THEN <<Err("terms", index, "abbreviation", -1, "must be a string",
               typeof(termObj.abbreviation))>>
    ELSE <<>>

RECURSIVE relatedItemErrors(_, _, _)
relatedItemErrors(items, relatedIndex, index) ==
    IF relatedIndex >= Len(items) THEN <<>>
    ELSE (IF typeof(items[relatedIndex + 1]) # "string"
          THEN <<Err("terms", index, "relatedTerms", relatedIndex,
                     "Related term must be a string",
                     typeof(items[relatedIndex + 1]))>>
          ELSE <<>>)
         \o relatedItemErrors(items, relatedIndex + 1, index)

relatedTermsFieldErrors(termObj, index) ==
    IF termObj.relatedTerms.t # "absent" /\ termObj.relatedTerms.t # "undefined"
    THEN IF termObj.relatedTerms.t # "array"
         THEN <<Err("terms", index, "relatedTerms", -1, "must be an array",
                    typeof(termObj.relatedTerms))>>
         ELSE relatedItemErrors(termObj.relatedTerms.a, 0, index)
    ELSE <<>>

idFieldErrors(termObj, index) ==
    IF termObj.id.t # "absent" /\ termObj.id.t # "undefined"
       /\ typeof(termObj.id) # "string"
    THEN <<Err("terms", index, "id", -1, "must be a string", typeof(termObj.id))>>
    ELSE <<>>

validateTerm(term, index) ==
    IF term.t = "null" \/ term.t = "undefined"
    THEN <<Err("terms", index, "", -1, "Term cannot be null or undefined", "")>>
    ELSE IF typeof(term) # "object"
    THEN <<Err("terms", index, "", -1, "Term must be an object", typeof(term))>>
    ELSE termFieldErrors(term, index) \o definitionFieldErrors(term, index)
         \o abbreviationFieldErrors(term, index)
         \o relatedTermsFieldErrors(term, index) \o idFieldErrors(term, index)

-----------------------------------------------------------------------------
(* validateGlossaryData                                                    *)

\* mutant: the default of throwOnError is false
throwOnError_defaultFalse(opt) == opt = "true"

\* const { throwOnError = true } = options
throwOnError(opt) == IF opt = "omitted" THEN TRUE ELSE opt = "true"

\* mutant: Array.isArray(glossaryData.terms) is not checked
rootErrors_noArrayCheck(d) ==
    IF d.t = "null" \/ d.t = "undefined"
    THEN <<Err("root", -1, "", -1, "Glossary data cannot be null or undefined", "")>>
    ELSE IF typeof(d) # "object"
    THEN <<Err("root", -1, "", -1, "Glossary data must be an object", typeof(d))>>
    ELSE IF ~d.hasTerms
    THEN <<Err("terms", -1, "", -1, "must contain a terms array", "")>>
    ELSE <<>>

\* the four root checks: the one error of the first that fails, else none
rootErrors(d) ==
    IF d.t = "null" \/ d.t = "undefined"
    THEN <<Err("root", -1, "", -1, "Glossary data cannot be null or undefined", "")>>
    ELSE IF typeof(d) # "object"
    THEN <<Err("root", -1, "", -1, "Glossary data must be an object", typeof(d))>>
    ELSE IF ~d.hasTerms
    THEN <<Err("terms", -1, "", -1, "must contain a terms array", "")>>
    ELSE IF d.termsT.t # "array"
    THEN <<Err("terms", -1, "", -1, "must be an array", typeof(d.termsT))>>
    ELSE <<>>

\* mutant: the errors of a later element are pushed in front
RECURSIVE perTermErrors_lastFirst(_, _)
perTermErrors_lastFirst(terms, index) ==
    IF index >= Len(terms) THEN <<>>
    ELSE perTermErrors_lastFirst(terms, index + 1)
         \o validateTerm(terms[index + 1], index)

\* glossaryData.terms.forEach: the errors pushed, in order
RECURSIVE perTermErrors(_, _)
perTermErrors(terms, index) ==
    IF index >= Len(terms) THEN <<>>
    ELSE validateTerm(terms[index + 1], index) \o perTermErrors(terms, index + 1)

\* mutant: the loop stops at the first element that has errors
RECURSIVE validPositions_stopAtFirstError(_, _)
validPositions_stopAtFirstError(terms, index) ==
    IF index >= Len(terms) THEN <<>>
    ELSE IF Len(validateTerm(terms[index + 1], index)) > 0 THEN <<>>
    ELSE <<index + 1>> \o validPositions_stopAtFirstError(terms, index + 1)

\* glossaryData.terms.forEach: the 1-based input positions pushed to validTerms
RECURSIVE validPositions(_, _)
validPositions(terms, index) ==
    IF index >= Len(terms) THEN <<>>
    ELSE (IF Len(validateTerm(terms[index + 1], index)) > 0
          THEN <<>> ELSE <<index + 1>>)
         \o validPositions(terms, index + 1)

\* termNames.get(lowerName) once validTerms[0..index-1] have been handled:
\* the least validTerms index holding that name, -1 when termNames has none
firstIndexOf(validTerms, index, lowerName) ==
    LET hits == {j \in 0..(index - 1) :
                   toLowerCase(validTerms[j + 1].term.s) = lowerName}
    IN IF hits = {} THEN -1 ELSE CHOOSE j \in hits : \A k \in hits : j <= k

\* validTerms.forEach of the duplicate check: the errors pushed, in order
RECURSIVE duplicateErrors(_, _)
duplicateErrors(validTerms, index) ==
    IF index >= Len(validTerms) THEN <<>>
    ELSE LET lowerName == toLowerCase(validTerms[index + 1].term.s)
             first == firstIndexOf(validTerms, index, lowerName)
         IN (IF first # -1
             THEN <<DupErr(index, first)>>
             ELSE <<>>)
            \o duplicateErrors(validTerms, index + 1)

\* what a call returns or throws
Outcome(status, valid, errors, terms, from) ==
    [status |-> status, valid |-> valid, errors |-> errors,
     terms |-> terms, from |-> from]

validateGlossaryData(d, opt) ==
    LET root == rootErrors(d)
    IN IF root # <<>>
       THEN IF throwOnError(opt) /\ Len(root) > 0
            THEN Outcome("thrown", FALSE, root, <<>>, <<>>)
            ELSE Outcome("returned", FALSE, root, <<>>, <<>>)
       ELSE LET from == validPositions(d.terms, 0)
                validTerms == [k \in 1..Len(from) |-> d.terms[from[k]]]
                errors == perTermErrors(d.terms, 0) \o duplicateErrors(validTerms, 0)
            IN IF throwOnError(opt) /\ Len(errors) > 0
               THEN Outcome("thrown", FALSE, errors, <<>>, <<>>)
               ELSE Outcome("returned", Len(errors) = 0, errors, validTerms, from)

-----------------------------------------------------------------------------
(* remarkGlossaryTerms: the term index                                     *)

\* a glossary term handed to the scanner
TermObj(term, definition) == [term |-> term, definition |-> definition]

\* !x for a string or undefined
Falsy(s) == s = <<>> \/ s = Undefined

\* Map.prototype.set: an existing key keeps its place and takes the new value
MapSet(map, key, value) ==
    IF \E i \in 1..Len(map) : map[i].key = key
    THEN [i \in 1..Len(map) |->
            IF map[i].key = key THEN [key |-> key, value |-> value] ELSE map[i]]
    ELSE Append(map, [key |-> key, value |-> value])

\* mutant: records without a term are not filtered out
RECURSIVE termMap_noFilter(_)
termMap_noFilter(terms) ==
    IF terms = <<>> THEN <<>>
    ELSE MapSet(termMap_noFilter(SubSeq(terms, 1, Len(terms) - 1)),
                toLowerCase(terms[Len(terms)].term), terms[Len(terms)])

\* glossaryTerms.forEach(termObj => { if (termObj.term) termMap.set(...) })
RECURSIVE termMap(_)
termMap(terms) ==
    IF terms = <<>> THEN <<>>
    ELSE LET rest == termMap(SubSeq(terms, 1, Len(terms) - 1))
             termObj == terms[Len(terms)]
         IN IF Falsy(termObj.term) THEN rest
            ELSE MapSet(rest, toLowerCase(termObj.term), termObj)

\* one step of the stable sort by descending key length
insertByLength(sorted, entry) ==
    LET ahead == {i \in 1..Len(sorted) : Len(sorted[i].key) >= Len(entry.key)}
        n == Cardinality(ahead)
    IN SubSeq(sorted, 1, n) \o <<entry>> \o SubSeq(sorted, n + 1, Len(sorted))

\* mutant: the entries are left in insertion order
sortByLength_insertionOrder(entries) == entries

\* Array.from(termMap.entries()).sort((a, b) => b[0].length - a[0].length)
RECURSIVE sortByLength(_)
sortByLength(entries) ==
    IF entries = <<>> THEN <<>>
    ELSE insertByLength(sortByLength(SubSeq(entries, 1, Len(entries) - 1)),
                        entries[Len(entries)])

-----------------------------------------------------------------------------
(* replaceTermsInText: finding the matches                                 *)

\* the element of a set of one element; {e(x) : x \in {v}} is `const x = v`
\* followed by e(x): v is computed once
Only(S) == CHOOSE r \in S : TRUE

\* String.prototype.indexOf(pattern, from), 0-based, -1 when absent
indexOf(text, pattern, from) ==
    LET hits == {i \in from..(Len(text) - Len(pattern)) :
                   SubSeq(text, i + 1, i + Len(pattern)) = pattern}
    IN IF hits = {} THEN -1 ELSE CHOOSE i \in hits : \A j \in hits : i <= j

\* textLower[i], or ' ' past either end of the string
charAt(textLower, i) ==
    IF i >= 0 /\ i < Len(textLower) THEN textLower[i + 1] ELSE " "

Match(index, length, termObj, originalText) ==
    [index |-> index, length |-> length, term |-> termObj.term,
     termObj |-> termObj, originalText |-> originalText]

\* the body of the while loop for the candidate at `index`: the length of the
\* match it pushes, -1 when it pushes none
matchLengthAt(textLower, lowerTerm, term, index) ==
    LET beforeChar == IF index > 0 THEN textLower[index] ELSE " "
        afterIndex == index + Len(lowerTerm)
        afterChar == charAt(textLower, afterIndex)
        exact == ~IsWordChar(beforeChar) /\ ~IsWordChar(afterChar)
        plural == /\ ~exact
                  /\ afterChar = "s"
                  /\ ~IsWordChar(charAt(textLower, afterIndex + 1))
        esPlural == /\ ~exact /\ ~plural
                    /\ afterChar = "e"
                    /\ afterIndex + 1 < Len(textLower)
                    /\ textLower[afterIndex + 2] = "s"
                    /\ ~IsWordChar(charAt(textLower, afterIndex + 2))
    IN IF exact THEN Len(term)
       ELSE IF plural THEN Len(term) + 1
       ELSE IF esPlural THEN Len(term) + 2
       ELSE -1

\* the while loop over searchIndex for one entry of sortedTerms
RECURSIVE termMatches(_, _, _, _)
termMatches(text, textLower, entry, searchIndex) ==
    IF searchIndex >= Len(textLower) THEN <<>>
    ELSE Only({IF index = -1 THEN <<>>
               ELSE LET length == matchLengthAt(textLower, entry.key,
                                                entry.value.term, index)
                    IN (IF length >= 0
                        THEN <<Match(index, length, entry.value,
                                     substring(text, index, index + length))>>
                        ELSE <<>>)
                       \o termMatches(text, textLower, entry, index + 1) :
               index \in {indexOf(textLower, entry.key, searchIndex)}})

\* for (const [lowerTerm, termObj] of sortedTerms): all matches, in push order
RECURSIVE findMatches(_, _)
findMatches(text, sorted) ==
    IF sorted = <<>> THEN <<>>
    ELSE Only({termMatches(text, textLower, Head(sorted), 0) :
               textLower \in {toLowerCase(text)}})
         \o findMatches(text, Tail(sorted))

\* one step of the stable sort by ascending index
insertByIndex(sorted, match) ==
    LET ahead == {i \in 1..Len(sorted) : sorted[i].index <= match.index}
        n == Cardinality(ahead)
    IN SubSeq(sorted, 1, n) \o <<match>> \o SubSeq(sorted, n + 1, Len(sorted))

\* matches.sort((a, b) => a.index - b.index)
RECURSIVE sortByIndex(_)
sortByIndex(matches) ==
    IF matches = <<>> THEN <<>>
    ELSE Only({insertByIndex(sorted, matches[Len(matches)]) :
               sorted \in {sortByIndex(SubSeq(matches, 1, Len(matches) - 1))}})

\* mutant: every match is kept
nonOverlapping_keepAll(matches, lastMatchEnd) == matches

\* the loop that keeps a match when it starts at or after lastMatchEnd
RECURSIVE nonOverlapping(_, _)
nonOverlapping(matches, lastMatchEnd) ==
    IF matches = <<>> THEN <<>>
    ELSE IF Head(matches).index >= lastMatchEnd
    THEN <<Head(matches)>>
         \o nonOverlapping(Tail(matches), Head(matches).index + Head(matches).length)
    ELSE nonOverlapping(Tail(matches), lastMatchEnd)

-----------------------------------------------------------------------------
(* Tree nodes                                                              *)

\* a unist node; `id` is the identity of the object, `estree` the statements
\* of data.estree.body, `value` a string (for mdxjsEsm: its tokens)
Node(id, type, value, name, attributes, estree, children) ==
    [id |-> id, type |-> type, value |-> value, name |-> name,
     attributes |-> attributes, estree |-> estree, children |-> children]

Txt(id, value) == Node(id, "text", value, "", <<>>, <<>>, <<>>)
Parent(id, type, children) == Node(id, type, <<>>, "", <<>>, <<>>, children)
Leaf(id, type) == Node(id, type, <<>>, "", <<>>, <<>>, <<>>)
Esm(id, value, estree) == Node(id, "mdxjsEsm", value, "", <<>>, estree, <<>>)

Attribute(name, value) == [type |-> "mdxJsxAttribute", name |-> name, value |-> value]

GlossaryTermModule == "@theme/GlossaryTerm"

RECURSIVE MaxId(_)
MaxId(node) ==
    LET below == {MaxId(node.children[i]) : i \in 1..Len(node.children)} \cup {node.id}
    IN CHOOSE m \in below : \A k \in below : k <= m

-----------------------------------------------------------------------------
(* replaceTermsInText: building the replacement nodes                      *)

\* the mdxJsxFlowElement pushed for a match; its text child takes the next id
glossaryTermElement(match, id) ==
    Node(id, "mdxJsxFlowElement", <<>>, "GlossaryTerm",
         <<Attribute("term", match.termObj.term),
           Attribute("definition",
                     IF Falsy(match.termObj.definition) THEN <<>>
                     ELSE match.termObj.definition),
           Attribute("routePath", routePath)>>,
         <<>>,
         <<Txt(id + 1, match.originalText)>>)

\* the loop over nonOverlappingMatches and the remaining text; `next` is the id
\* the next created object takes
RECURSIVE buildResult(_, _, _, _)
buildResult(text, matches, lastIndex, next) ==
    IF matches = <<>>
    THEN IF lastIndex < Len(text)
         THEN [nodes |-> <<Txt(next, substring(text, lastIndex, Len(text)))>>,
               next |-> next + 1]
         ELSE [nodes |-> <<>>, next |-> next]
    ELSE LET match == Head(matches)
             pre == IF match.index > lastIndex
                    THEN <<Txt(next, substring(text, lastIndex, match.index))>>
                    ELSE <<>>
             id == next + Len(pre)
             rest == buildResult(text, Tail(matches),
                                 match.index + match.length, id + 2)
         IN [nodes |-> pre \o <<glossaryTermElement(match, id)>> \o rest.nodes,
             next |-> rest.next]

\* return result.length > 0 ? result : [{ type: 'text', value: text }]
resultOrText(text, next, matches, kept, res) ==
    IF Len(res.nodes) > 0
    THEN [matches |-> matches, kept |-> kept, nodes |-> res.nodes,
          next |-> res.next]
    ELSE [matches |-> matches, kept |-> kept, nodes |-> <<Txt(next, text)>>,
          next |-> next + 1]

\* the rest of replaceTermsInText once the matches are sorted
replaceMatches(text, next, matches, nonOverlappingMatches) ==
    Only({resultOrText(text, next, matches, nonOverlappingMatches, res) :
          res \in {buildResult(text, nonOverlappingMatches, 0, next)}})

replaceSortedMatches(text, next, matches) ==
    Only({replaceMatches(text, next, matches, nonOverlappingMatches) :
          nonOverlappingMatches \in {nonOverlapping(matches, 0)}})

replaceTermsInText(text, next) ==
    IF Falsy(text) \/ Len(sortedTerms) = 0
    THEN [matches |-> <<>>, kept |-> <<>>, nodes |-> <<Txt(next, text)>>,
          next |-> next + 1]
    ELSE Only({replaceSortedMatches(text, next, sortByIndex(matches)) :
               matches \in {findMatches(text, sortedTerms)}})

-----------------------------------------------------------------------------
(* The transformer: visit(tree, 'text', visitor)                           *)

\* mutant: the visitor does not skip the children of links
Protected_noLink ==
    {"code", "inlineCode", "mdxJsxFlowElement", "mdxJsxTextElement"}

\* parent types under which the visitor returns at once
Protected ==
    {"code", "inlineCode", "link", "mdxJsxFlowElement", "mdxJsxTextElement"}

\* one visitor invocation, as logged
Visit(node, index, parent, scanned, matches, kept, newNodes) ==
    [id |-> node.id, value |-> node.value, index |-> index,
     parent |-> parent.id, parentType |-> parent.type, scanned |-> scanned,
     matches |-> matches, kept |-> kept, nodes |-> newNodes,
     inserted |-> Len(newNodes)]

\* mutant: the flow element is kept whatever the parent is
newNode_alwaysFlow(replacement, parent) == replacement

\* replacements.map(...): the flow element becomes a text element in a paragraph
newNode(replacement, parent) ==
    IF replacement.type = "mdxJsxFlowElement" /\ parent.type = "paragraph"
    THEN [replacement EXCEPT !.type = "mdxJsxTextElement"]
    ELSE replacement

\* whether replacements.map(...) sets usedGlossaryTerm: the ESM plugin sets it
\* for every flow element, its CommonJS copy returns the paragraph's text
\* element before the assignment
setsUsedGlossaryTerm(replacements, parent) ==
    /\ \E i \in 1..Len(replacements) : replacements[i].type = "mdxJsxFlowElement"
    /\ (variant = "esm" \/ parent.type # "paragraph")

\* mutant: the children behind the replaced one are lost
splice_dropRest(children, index, deleteCount, newNodes) ==
    SubSeq(children, 1, index) \o newNodes

\* parent.children.splice(index, 1, ...newNodes)
splice(children, index, deleteCount, newNodes) ==
    SubSeq(children, 1, index) \o newNodes
    \o SubSeq(children, index + deleteCount + 1, Len(children))

\* the visitor from `const replacements = replaceTermsInText(node.value)` on;
\* rep holds the replacements with the matches they came from
replaceNode(node, index, parent, st, rep) ==
    LET replacements == rep.nodes
    IN IF \/ Len(replacements) > 1
          \/ (Len(replacements) = 1 /\ replacements[1].type # "text")
       THEN LET newNodes == [i \in 1..Len(replacements) |->
                               newNode(replacements[i], parent)]
            IN [parent |-> [parent EXCEPT
                              !.children = splice(@, index, 1, newNodes)],
                ret |-> index + Len(newNodes) - 1,
                st |-> [used |-> st.used
                                 \/ setsUsedGlossaryTerm(replacements, parent),
                        log |-> Append(st.log,
                                       Visit(node, index, parent, TRUE,
                                             rep.matches, rep.kept,
                                             newNodes)),
                        next |-> rep.next]]
       ELSE [parent |-> parent, ret |-> -1,
             st |-> [st EXCEPT
                       !.log = Append(@, Visit(node, index, parent, TRUE,
                                               rep.matches, rep.kept, <<>>)),
                       !.next = rep.next]]

\* the visitor: st holds usedGlossaryTerm, the log and the next object id;
\* `ret` is the index it returns, -1 for undefined
visitor(node, index, parent, st) ==
    IF parent.type \in Protected
    THEN [parent |-> parent, ret |-> -1,
          st |-> [st EXCEPT !.log = Append(@, Visit(node, index, parent, FALSE,
                                                    <<>>, <<>>, <<>>))]]
    ELSE Only({replaceNode(node, index, parent, st, replacements) :
               replacements \in {replaceTermsInText(node.value, st.next)}})

\* unist-util-visit below `parent`, from child `offset` on: a text child goes
\* to the visitor and the walk resumes at the index it returns (else at the
\* next sibling); any other child is walked in turn
RECURSIVE visitChildren(_, _, _)

\* the walk after the visitor returned r for the child at `offset`
afterVisitor(offset, r) ==
    visitChildren(r.parent, IF r.ret # -1 THEN r.ret ELSE offset + 1, r.st)

\* the walk after the subtree of the child at `offset` has been walked
afterSubtree(parent, offset, sub) ==
    visitChildren([parent EXCEPT !.children[offset + 1] = sub.node],
                  offset + 1, sub.st)

visitChildren(parent, offset, st) ==
    IF offset >= Len(parent.children) THEN [node |-> parent, st |-> st]
    ELSE IF parent.children[offset + 1].type = "text"
    THEN afterVisitor(offset,
                      visitor(parent.children[offset + 1], offset, parent, st))
    ELSE afterSubtree(parent, offset,
                      visitChildren(parent.children[offset + 1], 0, st))

-----------------------------------------------------------------------------
(* The transformer: import injection                                       *)

ImportDeclaration(source) == [type |-> "ImportDeclaration", source |-> source]

\* the import node; its value is kept as tokens, the module path one of them
importNode(id) ==
    IF variant = "esm"
    THEN Esm(id, <<"import GlossaryTerm from ", "\"", GlossaryTermModule, "\"", ";">>,
             <<ImportDeclaration(GlossaryTermModule)>>)
    ELSE Esm(id, <<"import GlossaryTerm from ", "'", GlossaryTermModule, "'">>,
             <<ImportDeclaration(GlossaryTermModule)>>)

\* n.value?.includes('@theme/GlossaryTerm'), on the tokens of the value
includesModule(value) ==
    value # Undefined /\ \E i \in 1..Len(value) : value[i] = GlossaryTermModule

\* mutant: only the value of an mdxjsEsm node is searched, not its estree
hasImport_valueOnly(root) ==
    \E i \in 1..Len(root.children) :
        /\ root.children[i].type = "mdxjsEsm"
        /\ includesModule(root.children[i].value)

\* tree.children.some(n => n.type === 'mdxjsEsm' && ...)
hasImport(root) ==
    \E i \in 1..Len(root.children) :
        LET n == root.children[i]
        IN /\ n.type = "mdxjsEsm"
           /\ IF variant = "esm"
              THEN \/ includesModule(n.value)
                   \/ \E k \in 1..Len(n.estree) :
                         n.estree[k].source = GlossaryTermModule
              ELSE \/ includesModule(n.value)
                   \/ \E k \in 1..Len(n.estree) :
                         /\ n.estree[k].type = "ImportDeclaration"
                         /\ n.estree[k].source = GlossaryTermModule

\* mutant: the import goes to the very beginning
insertIndex_zero(children, i) == 0

\* the loop over the leading yaml/toml nodes (the CommonJS copy unshifts)
RECURSIVE insertIndex(_, _)
insertIndex(children, i) ==
    IF variant = "cjs" THEN 0
    ELSE IF i < Len(children) /\ children[i + 1].type \in {"yaml", "toml"}
    THEN insertIndex(children, i + 1)
    ELSE i

\* if (usedGlossaryTerm) { ... }: the import, unless the tree has one
injectImport(walk) ==
    IF walk.st.used /\ ~hasImport(walk.node)
    THEN [tree |-> [walk.node EXCEPT
                      !.children = splice(@, insertIndex(@, 0), 0,
                                          <<importNode(walk.st.next)>>)],
          log |-> walk.st.log, injected |-> TRUE, thrown |-> FALSE]
    ELSE [tree |-> walk.node, log |-> walk.st.log, injected |-> FALSE,
          thrown |-> FALSE]

\* the transformer returned by remarkGlossaryTerms, applied to `root`: the
\* tree it leaves, the visitor log, and whether it spliced the import in
transformer(root) ==
    IF Len(sortedTerms) = 0
    THEN [tree |-> root, log |-> <<>>, injected |-> FALSE, thrown |-> FALSE]
    ELSE IF root.type = "text"
    THEN \* visit calls visitor(root, undefined, undefined): parent.type raises
         [tree |-> root, log |-> <<>>, injected |-> FALSE, thrown |-> TRUE]
    ELSE injectImport(visitChildren(root, 0,
                                    [used |-> FALSE, log |-> <<>>,
                                     next |-> MaxId(root) + 1]))

-----------------------------------------------------------------------------
(* The validator's inputs                                                  *)

sAPI == <<"A", "P", "I">>
sapi == <<"a", "p", "i">>
sSDK == <<"S", "D", "K">>
sD == <<"d">>

\* elements of `terms`: non-objects, objects failing one or several checks,
\* and valid objects, some of them equal under case-folding
ElementPool ==
    { NonObj("null"), NonObj("undefined"), NonObj("number"),
      Obj(Absent, Absent, Absent, Absent, Absent),
      Obj(JStr(sAPI), JStr(sD), Absent, Absent, Absent),
      Obj(JStr(sapi), JStr(<<>>), Absent, Absent, Absent),
      Obj(JStr(sSDK), JStr(sD), JStr(sD), JArr(<<JStr(sD)>>), JStr(sD)),
      Obj(JStr(<<" ">>), JStr(sD), Absent, Absent, Absent),
      Obj(JNum, JStr(sD), Absent, Absent, Absent),
      Obj(JStr(sAPI), JNum, Absent, Absent, Absent),
      Obj(JStr(<<" ">> \o sAPI), JStr(sD), JUndef, JUndef, JUndef),
      Obj(JStr(sSDK), JStr(sD), JNum, Absent, JNull),
      Obj(JStr(sSDK), JStr(sD), Absent, JStr(sSDK), Absent),
      Obj(JStr(sapi), JStr(sD), Absent, JArr(<<JStr(sD), JNum, JNull>>), Absent),
      Obj(JStr(sAPI), JStr(sD), Absent, JArr(<<>>), Absent) }

TermsPool == UNION {[1..n -> ElementPool] : n \in 0..MaxTerms}

\* `data`: null, undefined, a primitive, an object without `terms`, an object
\* whose `terms` is not an array, and objects with a `terms` array
BadRootPool ==
    { Data("null", FALSE, Absent, <<>>), Data("undefined", FALSE, Absent, <<>>),
      Data("string", FALSE, Absent, <<>>), Data("number", FALSE, Absent, <<>>),
      Data("object", FALSE, Absent, <<>>), Data("array", FALSE, Absent, <<>>),
      Data("object", TRUE, JStr(sD), <<>>), Data("object", TRUE, JNull, <<>>),
      Data("object", TRUE, JUndef, <<>>),
      \* an array-like object that is no array: { 0: null, 1: {...}, length: 2 }
      Data("object", TRUE, JV("object", <<>>, <<>>),
           <<NonObj("null"), Obj(JStr(sAPI), JStr(sD), Absent, Absent, Absent)>>) }

DataPool ==
    BadRootPool \cup {Data("object", TRUE, JArr(<<>>), ts) : ts \in TermsPool}

OptionPool == {"omitted", "true", "false"}

NoData == Data("undefined", FALSE, Absent, <<>>)
NoResult == Outcome("none", FALSE, <<>>, <<>>, <<>>)

-----------------------------------------------------------------------------
(* Loading the glossary from a file: validateGlossaryTerms, glossaryCache  *)

\* mutant: every element of `terms` is accepted
termError_none(term, index) == <<>>

\* the check the forEach callback makes on one element: the message it pushes
termError(term, index) ==
    IF term.t \notin {"object", "array"}
    THEN <<[index |-> index, message |-> "Term must be an object"]>>
    ELSE IF term.term.t # "string" \/ trim(term.term.s) = <<>>
    THEN <<[index |-> index, message |-> "Missing or invalid term field"]>>
    ELSE IF term.definition.t # "string"
    THEN <<[index |-> index, message |-> "Missing or invalid definition field"]>>
    ELSE <<>>

\* data.terms.forEach(...): the elements pushed to validTerms, in order
RECURSIVE loadedTerms(_, _)
loadedTerms(terms, index) ==
    IF index >= Len(terms) THEN <<>>
    ELSE (IF termError(terms[index + 1], index) = <<>>
          THEN <<terms[index + 1]>> ELSE <<>>)
         \o loadedTerms(terms, index + 1)

\* data.terms.forEach(...): the messages pushed to errors, in order
RECURSIVE loadErrors(_, _)
loadErrors(terms, index) ==
    IF index >= Len(terms) THEN <<>>
    ELSE termError(terms[index + 1], index) \o loadErrors(terms, index + 1)

\* validateGlossaryTerms(data, filePath)
validateGlossaryTerms(d) ==
    IF d.t = "null" \/ d.t = "undefined"
    THEN [terms |-> <<>>,
          errors |-> <<[index |-> -1, message |-> "null or undefined"]>>]
    ELSE IF typeof(d) # "object"
    THEN [terms |-> <<>>,
          errors |-> <<[index |-> -1, message |-> "must be an object"]>>]
    ELSE IF ~d.hasTerms
    THEN [terms |-> <<>>,
          errors |-> <<[index |-> -1, message |-> "must contain a terms array"]>>]
    ELSE IF d.termsT.t # "array"
    THEN [terms |-> <<>>,
          errors |-> <<[index |-> -1, message |-> "terms must be an array"]>>]
    ELSE [terms |-> loadedTerms(d.terms, 0), errors |-> loadErrors(d.terms, 0)]

\* what the scanner reads of a loaded term: termObj.term, termObj.definition
scannerTerm(e) ==
    TermObj(IF e.term.t = "string" THEN e.term.s ELSE Undefined,
            IF e.definition.t = "string" THEN e.definition.s ELSE Undefined)

scannerTerms(validTerms) ==
    [i \in 1..Len(validTerms) |-> scannerTerm(validTerms[i])]

CACHE_TTL == 5000

\* a path or directory option that is null, undefined or ''
NoPath == <<>>

\* a siteDir that is no string but truthy: path.resolve raises a TypeError
NumberDir == <<"(number)">>

\* path.resolve(siteDir, glossaryPath), on the segments of the two paths: the
\* relative path is appended to the directory and its "." segments vanish
resolve(siteDir, glossaryPath) ==
    siteDir \o SelectSeq(glossaryPath, LAMBDA seg : seg # ".")

\* a value of glossaryCache: { terms, loadedAt }, `terms` being the identity
\* of the array (its place in `heap`); glossaryCache.get gives undefined for
\* a key that is not set
Entry(terms, loadedAt) == [present |-> TRUE, terms |-> terms, loadedAt |-> loadedAt]
NoEntry == [present |-> FALSE, terms |-> 0, loadedAt |-> 0]

\* mutant: an entry that is exactly CACHE_TTL old still counts as fresh
fresh_inclusive(cached, t) ==
    cached.present /\ t - cached.loadedAt <= CACHE_TTL

\* cached && now - cached.loadedAt < CACHE_TTL
fresh(cached, t) ==
    cached.present /\ t - cached.loadedAt < CACHE_TTL

\* mutant: a failed load is not remembered
failedLoad_notCached(cache, arrays, key, t) ==
    [cache |-> cache, heap |-> arrays]

\* glossaryCache.set(glossaryFilePath, { terms: [], loadedAt }): the empty
\* array is a new object
failedLoad(cache, arrays, key, t) ==
    [cache |-> [cache EXCEPT ![key] = Entry(Len(arrays) + 1, t)],
     heap |-> Append(arrays, <<>>)]

\* glossaryCache.set(glossaryFilePath, { terms: glossaryTerms, loadedAt: now })
\* with the validTerms array validateGlossaryTerms has made
storeLoaded(cache, arrays, key, validTerms, t) ==
    [cache |-> [cache EXCEPT ![key] = Entry(Len(arrays) + 1, t)],
     heap |-> Append(arrays, validTerms)]

\* the state of a file: missing, unreadable (readFileSync raises), holding
\* text that is no JSON, or holding the JSON text of `data`
File(kind, d) == [kind |-> kind, data |-> d]

\* what the body of remarkGlossaryTerms up to the building of termMap leaves:
\* the cache and the arrays, the array glossaryTerms refers to (0: the `terms`
\* option), whether the file system was asked for the file, whether the file
\* was read, whether `tree => tree` was returned from the parse failure,
\* whether an error left the function
Loaded(c, ref, touched, read, early, raised) ==
    [cache |-> c.cache, heap |-> c.heap, ref |-> ref, touched |-> touched,
     read |-> read, early |-> early, raised |-> raised]

\* the else branch of the cache check: cache miss or expired entry; t2 is
\* what Date.now() gives in the catch block
loadFromFile(cache, arrays, key, file, t, t2) ==
    CASE file.kind = "missing" ->
           Loaded(failedLoad(cache, arrays, key, t), 0, TRUE, FALSE, FALSE, FALSE)
      [] file.kind = "unreadable" ->
           Loaded(failedLoad(cache, arrays, key, t2), 0, TRUE, TRUE, FALSE, FALSE)
      [] file.kind = "unparsable" ->
           Loaded(failedLoad(cache, arrays, key, t), 0, TRUE, TRUE, TRUE, FALSE)
      [] OTHER ->
           Loaded(storeLoaded(cache, arrays, key,
                              validateGlossaryTerms(file.data).terms, t),
                  Len(arrays) + 1, TRUE, TRUE, FALSE, FALSE)

\* remarkGlossaryTerms, lines 84-167: `let glossaryTerms = terms` and the load
loadGlossary(opt, cache, arrays, fs, t, t2) ==
    IF ~(Len(opt.terms) = 0 /\ opt.glossaryPath # NoPath /\ opt.siteDir # NoPath)
    THEN Loaded([cache |-> cache, heap |-> arrays], 0, FALSE, FALSE, FALSE, FALSE)
    ELSE IF opt.siteDir = NumberDir
    THEN \* path.resolve raises in the try block and again in the catch block
         Loaded([cache |-> cache, heap |-> arrays], 0, FALSE, FALSE, FALSE, TRUE)
    ELSE IF fresh(cache[resolve(opt.siteDir, opt.glossaryPath)], t)
    THEN Loaded([cache |-> cache, heap |-> arrays],
                cache[resolve(opt.siteDir, opt.glossaryPath)].terms,
                FALSE, FALSE, FALSE, FALSE)
    ELSE loadFromFile(cache, arrays, resolve(opt.siteDir, opt.glossaryPath),
                      fs[resolve(opt.siteDir, opt.glossaryPath)], t, t2)

\* clearGlossaryCache(filePath)
clearGlossaryCache(cache, filePath) ==
    IF filePath # NoPath
    THEN [p \in DOMAIN cache |-> IF p = filePath THEN NoEntry ELSE cache[p]]
    ELSE [p \in DOMAIN cache |-> NoEntry]

\* the options of the constructions: none, explicit terms beside a path, a
\* path, the same path spelt with "./", another path, a siteDir that is a
\* number
Options(terms, glossaryPath, siteDir) ==
    [terms |-> terms, glossaryPath |-> glossaryPath, siteDir |-> siteDir]

OptionsPool ==
    { Options(<<>>, NoPath, NoPath),
      Options(<<TermObj(<<"a">>, <<"d">>)>>, <<"g.json">>, <<"s">>),
      Options(<<>>, <<"g.json">>, <<"s">>),
      Options(<<>>, <<".", "g.json">>, <<"s">>),
      Options(<<>>, <<"h.json">>, <<"s">>),
      Options(<<>>, <<"g.json">>, NumberDir) }

\* the keys glossaryCache can get
Keys == {<<"s", "g.json">>, <<"s", "h.json">>}

\* the contents a glossary file can have
JsonPool ==
    { Data("object", TRUE, JArr(<<>>),
           <<Obj(JStr(<<"a">>), JStr(<<"d">>), Absent, Absent, Absent)>>),
      Data("object", TRUE, JArr(<<>>),
           <<NonObj("null"),
             Obj(JStr(<<" ">>), JStr(<<"d">>), Absent, Absent, Absent),
             Obj(JStr(<<"e">>), JNum, Absent, Absent, Absent),
             Obj(JStr(<<"A">>), JStr(<<"D">>), Absent, Absent, Absent)>>) }

FilePool ==
    {File("missing", NoData), File("unreadable", NoData),
     File("unparsable", NoData)}
    \cup {File("json", d) : d \in JsonPool}

\* the times Date.now() gives
Times == {0, CACHE_TTL - 1, CACHE_TTL}

\* the record of the last construction
NoLoad ==
    [n |-> 0, opt |-> Options(<<>>, NoPath, NoPath), t |-> 0,
     before |-> [p \in Keys |-> NoEntry], after |-> [p \in Keys |-> NoEntry],
     file |-> File("missing", NoData),
     ref |-> 0, touched |-> FALSE, read |-> FALSE, early |-> FALSE,
     raised |-> FALSE, identity |-> FALSE]

\* the loader's state while the validator or the scanner alone runs
CacheIdle ==
    /\ glossaryCache = [p \in Keys |-> NoEntry]
    /\ heap = <<>>
    /\ files = [p \in Keys |-> File("missing", NoData)]
    /\ now = 0
    /\ load = NoLoad

-----------------------------------------------------------------------------
(* The scanner's state while the validator runs, and the reverse           *)

EmptyTree ==
    [id |-> 1, type |-> "root", value |-> <<>>, name |-> "",
     attributes |-> <<>>, estree |-> <<>>, children |-> <<>>]

ScannerIdle ==
    /\ glossaryTerms = <<>>
    /\ sortedTerms = <<>>
    /\ built = FALSE
    /\ tree = EmptyTree
    /\ before = EmptyTree
    /\ calls = 0
    /\ injected = 0
    /\ thrown = FALSE
    /\ log = <<>>
    /\ routePath = <<>>
    /\ variant = "esm"

ValidatorIdle ==
    /\ data = NoData
    /\ options = "omitted"
    /\ result = NoResult

-----------------------------------------------------------------------------
(* The validator as a state machine                                        *)

InitV == ValidatorIdle /\ ScannerIdle /\ CacheIdle /\ WalkIdle

\* one call validateGlossaryData(d, { throwOnError: opt })
Validate ==
    /\ result.status = "none"
    /\ \E d \in DataPool, opt \in OptionPool :
         /\ data' = d
         /\ options' = opt
         /\ result' = validateGlossaryData(d, opt)
    /\ UNCHANGED svars
    /\ UNCHANGED cvars
    /\ UNCHANGED wvars

NextV == Validate

SpecV == InitV /\ [][NextV]_vars

-----------------------------------------------------------------------------
(* The scanner's inputs                                                    *)

\* the characters of scanned text: a letter in both cases, the plural
\* letters, a non-word character, and a letter whose lower case is longer
ScanChars == {"a", "A", "s", "e", " ", DottedI}

Strings(n) == UNION {[1..k -> ScanChars] : k \in 0..n}

\* a document of one paragraph holding one text node, for every short string
TextTrees ==
    {Parent(1, "root", <<Parent(2, "paragraph", <<Txt(3, text)>>)>>) :
        text \in Strings(MaxTextLen)}

\* leading front-matter nodes
FrontMatterPool ==
    {<<>>, <<Leaf(2, "yaml")>>, <<Leaf(2, "yaml"), Leaf(3, "toml")>>}

\* a top-level mdxjsEsm node already in the document: none, the GlossaryTerm
\* import, another import, and one that names the module in its estree only
EsmPool ==
    {<<>>,
     <<Esm(4, <<"import GlossaryTerm from ", "\"", GlossaryTermModule, "\"", ";">>,
           <<ImportDeclaration(GlossaryTermModule)>>)>>,
     <<Esm(4, <<"import Tabs from ", "'", "@theme/Tabs", "'">>,
           <<ImportDeclaration("@theme/Tabs")>>)>>,
     <<Esm(4, Undefined, <<ImportDeclaration(GlossaryTermModule)>>)>>}

ContainerTypes ==
    {"paragraph", "heading", "code", "inlineCode", "link",
     "mdxJsxFlowElement", "mdxJsxTextElement"}

TextPool ==
    {<<"a">>, <<"e", " ", "A", "s">>, <<"e">>, <<"a", " ", "e", " ", "a", "a">>,
     <<DottedI, DottedI, "a", " ", "a">>,
     <<DottedI, DottedI, "a", " ", "e", "a">>,
     <<" ", "a", " ", "a", " ", " ", "a">>}

\* a block holding one text node
BlockPool ==
    {<<Parent(10, type, <<Txt(11, text)>>)>> :
        type \in ContainerTypes, text \in TextPool}

\* what follows it: nothing, a paragraph with a link and an emphasis in it, a
\* text node right under the root, a text node whose value is undefined, a
\* link whose text sits under an emphasis
TailPool ==
    {<<>>,
     <<Parent(20, "paragraph",
              <<Txt(21, <<"A", " ", "e">>),
                Parent(22, "link", <<Txt(23, <<"a">>)>>),
                Parent(24, "emphasis", <<Txt(25, <<"a", "s">>)>>),
                Txt(26, <<"e">>)>>)>>,
     <<Txt(30, <<"a", " ", "a">>)>>,
     <<Parent(31, "paragraph", <<Txt(32, Undefined)>>)>>,
     <<Parent(40, "paragraph",
              <<Parent(41, "link",
                       <<Parent(42, "emphasis", <<Txt(43, <<"a">>)>>)>>)>>)>>}

StructuredTrees ==
    {Parent(1, "root", front \o esm \o block \o tail) :
        front \in FrontMatterPool, esm \in EsmPool,
        block \in BlockPool, tail \in TailPool}

\* a tree that is a single text node: the node the visitor gets has no parent
BareTextTrees == {Txt(1, <<"a">>), Txt(1, <<>>)}

TreePool == TextTrees \cup StructuredTrees \cup BareTextTrees

tA == TermObj(<<"a">>, <<"d">>)
tUpperA == TermObj(<<"A">>, <<"D">>)
tAA == TermObj(<<"a", " ", "a">>, <<"d", "d">>)
tAs == TermObj(<<"a", "s">>, <<>>)
tEmpty == TermObj(<<>>, <<"d">>)
tNoTerm == TermObj(Undefined, <<"d">>)
tAE == TermObj(<<"a", " ", "e">>, <<"d">>)
tEAA == TermObj(<<"e", " ", "a", "a">>, <<"d">>)
tSpaceA == TermObj(<<" ", "a">>, <<"d">>)

DefaultRoute == <<"/glossary">>

\* the options remarkGlossaryTerms is called with
Config(terms, route) == [terms |-> terms, routePath |-> route]
ConfigPool ==
    {Config(terms, DefaultRoute) :
        terms \in {<<>>, <<tEmpty>>, <<tNoTerm, tEmpty>>, <<tA>>, <<tUpperA>>,
                   <<tA, tAA>>, <<tA, tUpperA>>, <<tAs, tA>>, <<tEmpty, tA>>,
                   <<tAE, tEAA>>, <<tSpaceA>>}}
    \cup {Config(<<tA>>, <<"/terms">>)}

-----------------------------------------------------------------------------
(* The scanner as a state machine                                          *)

ScannerNew ==
    /\ glossaryTerms = <<>>
    /\ sortedTerms = <<>>
    /\ built = FALSE
    /\ tree \in TreePool
    /\ before = tree
    /\ calls = 0
    /\ injected = 0
    /\ thrown = FALSE
    /\ log = <<>>
    /\ routePath = <<>>

Init == ValidatorIdle /\ ScannerNew /\ CacheIdle /\ WalkIdle /\ variant = "esm"

InitCjs == ValidatorIdle /\ ScannerNew /\ CacheIdle /\ WalkIdle /\ variant = "cjs"

\* remarkGlossaryTerms({ terms, routePath }): builds termMap and sortedTerms
Build ==
    /\ ~built
    /\ \E cfg \in ConfigPool :
         /\ glossaryTerms' = cfg.terms
         /\ routePath' = cfg.routePath
         /\ sortedTerms' = sortByLength(termMap(cfg.terms))
    /\ built' = TRUE
    /\ UNCHANGED <<tree, before, calls, injected, log, thrown, variant>>
    /\ UNCHANGED vvars
    /\ UNCHANGED wvars
    /\ UNCHANGED cvars

\* one call of the returned transformer on the tree
Transform ==
    /\ built
    /\ calls < MaxCalls
    /\ \E r \in {transformer(tree)} :
          /\ before' = tree
          /\ tree' = r.tree
          /\ log' = r.log
          /\ injected' = injected + (IF r.injected THEN 1 ELSE 0)
          /\ thrown' = r.thrown
    /\ calls' = calls + 1
    /\ UNCHANGED <<glossaryTerms, sortedTerms, built, routePath, variant>>
    /\ UNCHANGED vvars
    /\ UNCHANGED wvars
    /\ UNCHANGED cvars

Next == Build \/ Transform

Spec == Init /\ [][Next]_vars

SpecCjs == InitCjs /\ [][Next]_vars

-----------------------------------------------------------------------------
(* The loader as a state machine: constructions that load the glossary     *)
(* from a file, the clock, the files, and transformer calls                *)

\* the document the transformers of this machine are called on
CacheTree ==
    Parent(1, "root", <<Parent(2, "paragraph", <<Txt(3, <<"a", " ", "A">>)>>)>>)

InitCache ==
    /\ ValidatorIdle
    /\ glossaryTerms = <<>>
    /\ sortedTerms = <<>>
    /\ built = FALSE
    /\ tree = CacheTree
    /\ before = CacheTree
    /\ calls = 0
    /\ injected = 0
    /\ thrown = FALSE
    /\ log = <<>>
    /\ routePath = <<>>
    /\ variant = "esm"
    /\ glossaryCache = [p \in Keys |-> NoEntry]
    /\ heap = <<>>
    /\ files \in [Keys -> FilePool]
    /\ now = 0
    /\ load = NoLoad
    /\ WalkIdle

\* the catch block of remarkGlossaryTerms ran: readFileSync had raised
Caught(r) == r.read /\ r.ref = 0 /\ ~r.early

\* remarkGlossaryTerms(options) at the time `now`; Date.now() in the catch
\* block gives t2
Construct ==
    /\ load.n < MaxLoads
    /\ \E opt \in OptionsPool, t2 \in {x \in Times : x >= now} :
         \E r \in {loadGlossary(opt, glossaryCache, heap, files, now, t2)} :
            /\ Caught(r) \/ t2 = now
            /\ glossaryCache' = r.cache
            /\ heap' = r.heap
            /\ now' = t2
            /\ IF r.raised
               THEN UNCHANGED <<glossaryTerms, sortedTerms, built, routePath>>
               ELSE /\ glossaryTerms' = IF r.ref = 0 THEN opt.terms
                                        ELSE scannerTerms(r.heap[r.ref])
                    /\ sortedTerms' = IF r.early THEN <<>>
                                      ELSE sortByLength(termMap(glossaryTerms'))
                    /\ built' = TRUE
                    /\ routePath' = DefaultRoute
            /\ load' = [n |-> load.n + 1, opt |-> opt, t |-> now,
                        before |-> glossaryCache, after |-> r.cache,
                        file |-> IF resolve(opt.siteDir, opt.glossaryPath) \in Keys
                                 THEN files[resolve(opt.siteDir, opt.glossaryPath)]
                                 ELSE File("missing", NoData),
                        ref |-> r.ref, touched |-> r.touched, read |-> r.read,
                        early |-> r.early, raised |-> r.raised,
                        identity |-> ~r.raised /\ sortedTerms' = <<>>]
    /\ UNCHANGED <<tree, before, calls, injected, log, thrown, variant, files>>
    /\ UNCHANGED vvars
    /\ UNCHANGED wvars

\* time passes before a construction
Tick ==
    /\ load.n < MaxLoads
    /\ \E t \in Times : t > now /\ now' = t
    /\ UNCHANGED <<glossaryCache, heap, files, load>>
    /\ UNCHANGED svars
    /\ UNCHANGED vvars
    /\ UNCHANGED wvars

\* somebody writes, removes or protects a glossary file between two
\* constructions (the files of the first one are those of the initial state)
WriteFile ==
    /\ load.n > 0
    /\ load.n < MaxLoads
    /\ \E p \in Keys, f \in FilePool :
         /\ f # files[p]
         /\ files' = [files EXCEPT ![p] = f]
    /\ UNCHANGED <<glossaryCache, heap, now, load>>
    /\ UNCHANGED svars
    /\ UNCHANGED vvars
    /\ UNCHANGED wvars

\* clearGlossaryCache(filePath)
Clear ==
    /\ \E filePath \in Keys \cup {NoPath} :
         /\ glossaryCache' = clearGlossaryCache(glossaryCache, filePath)
         /\ glossaryCache' # glossaryCache
    /\ UNCHANGED <<heap, files, now, load>>
    /\ UNCHANGED svars
    /\ UNCHANGED vvars
    /\ UNCHANGED wvars

NextCache == Construct \/ Tick \/ WriteFile \/ Clear \/ Transform

SpecCache == InitCache /\ [][NextCache]_vars

-----------------------------------------------------------------------------
(* The transformer call step by step: unist-util-visit walks the tree and  *)
(* calls the visitor on every text node it comes to                        *)

\* the documents of this machine: a block, what follows it, bare text nodes
WalkPool ==
    {Parent(1, "root", b \o tl) : b \in BlockPool, tl \in TailPool}
    \cup BareTextTrees

Front(path) == SubSeq(path, 1, Len(path) - 1)

\* the node reached from `node` by the child indexes of `path`
RECURSIVE NodeAt(_, _)
NodeAt(node, path) ==
    IF path = <<>> THEN node
    ELSE NodeAt(node.children[Head(path) + 1], Tail(path))

\* `node` with the node at `path` exchanged for `new`
RECURSIVE ReplaceAt(_, _, _)
ReplaceAt(node, path, new) ==
    IF path = <<>> THEN new
    ELSE [node EXCEPT !.children[Head(path) + 1] =
                         ReplaceAt(@, Tail(path), new)]

\* mutant: after a visitor call that returns nothing the walk stays where it is
resume_stay(offset, ret) == IF ret # -1 THEN ret ELSE offset

\* unist-util-visit: the child the walk goes on with after the visitor has
\* returned `ret` (-1: undefined) for the child at `offset`
resume(offset, ret) == IF ret # -1 THEN ret ELSE offset + 1

\* the parent whose children the walk is in, the child index it is at
WalkParent == NodeAt(tree, Front(cursor))
WalkOffset == cursor[Len(cursor)]

InitWalk ==
    /\ ValidatorIdle
    /\ CacheIdle
    /\ WalkIdle
    /\ glossaryTerms = <<>>
    /\ sortedTerms = <<>>
    /\ built = FALSE
    /\ tree \in WalkPool
    /\ before = tree
    /\ calls = 0
    /\ injected = 0
    /\ thrown = FALSE
    /\ log = <<>>
    /\ routePath = <<>>
    /\ variant = "esm"

\* the transformer is called: a transformer without terms returns the tree,
\* a tree that is a text node makes the visitor raise, any other tree is walked
Begin ==
    /\ built
    /\ ~visit.active
    /\ calls < MaxCalls
    /\ before' = tree
    /\ log' = <<>>
    /\ IF Len(sortedTerms) = 0 \/ tree.type = "text"
       THEN /\ thrown' = (Len(sortedTerms) # 0)
            /\ calls' = calls + 1
            /\ UNCHANGED wvars
       ELSE /\ thrown' = FALSE
            /\ visit' = [active |-> TRUE, used |-> FALSE, next |-> MaxId(tree) + 1]
            /\ cursor' = <<0>>
            /\ UNCHANGED calls
    /\ UNCHANGED <<glossaryTerms, sortedTerms, built, tree, injected, routePath,
                   variant>>
    /\ UNCHANGED vvars
    /\ UNCHANGED cvars

\* the walk comes to a text node: the visitor is called on it
VisitText ==
    /\ visit.active
    /\ WalkOffset < Len(WalkParent.children)
    /\ WalkParent.children[WalkOffset + 1].type = "text"
    /\ \E r \in {visitor(WalkParent.children[WalkOffset + 1], WalkOffset,
                         WalkParent,
                         [used |-> visit.used, log |-> log, next |-> visit.next])} :
          /\ tree' = ReplaceAt(tree, Front(cursor), r.parent)
          /\ cursor' = Append(Front(cursor), resume(WalkOffset, r.ret))
          /\ visit' = [active |-> TRUE, used |-> r.st.used, next |-> r.st.next]
          /\ log' = r.st.log
    /\ UNCHANGED <<glossaryTerms, sortedTerms, built, before, calls, injected,
                   thrown, routePath, variant>>
    /\ UNCHANGED vvars
    /\ UNCHANGED cvars

\* the walk comes to a node that is no text: it goes on with its children
Enter ==
    /\ visit.active
    /\ WalkOffset < Len(WalkParent.children)
    /\ WalkParent.children[WalkOffset + 1].type # "text"
    /\ cursor' = Append(cursor, 0)
    /\ UNCHANGED <<svars, visit>>
    /\ UNCHANGED vvars
    /\ UNCHANGED cvars

\* the children of a node below the root are done: on with its next sibling
Leave ==
    /\ visit.active
    /\ Len(cursor) > 1
    /\ WalkOffset >= Len(WalkParent.children)
    /\ cursor' = Append(Front(Front(cursor)), cursor[Len(cursor) - 1] + 1)
    /\ UNCHANGED <<svars, visit>>
    /\ UNCHANGED vvars
    /\ UNCHANGED cvars

\* the children of the root are done: the import is injected when needed and
\* the call returns
End ==
    /\ visit.active
    /\ Len(cursor) = 1
    /\ WalkOffset >= Len(tree.children)
    /\ \E r \in {injectImport([node |-> tree,
                               st |-> [used |-> visit.used, log |-> log,
                                       next |-> visit.next]])} :
          /\ tree' = r.tree
          /\ injected' = injected + (IF r.injected THEN 1 ELSE 0)
    /\ calls' = calls + 1
    /\ visit' = NoWalk
    /\ cursor' = <<>>
    /\ UNCHANGED <<glossaryTerms, sortedTerms, built, before, log, thrown,
                   routePath, variant>>
    /\ UNCHANGED vvars
    /\ UNCHANGED cvars

\* a step of a call that has begun
Walk == VisitText \/ Enter \/ Leave \/ End

NextWalk == Build \/ Begin \/ Walk

\* the call is synchronous code: once begun, it keeps taking steps
SpecWalk == InitWalk /\ [][NextWalk]_vars /\ WF_vars(Walk)

-----------------------------------------------------------------------------
(* Claims about the validator (checked under SpecV)                        *)

Range(f) == {f[k] : k \in DOMAIN f}

\* the call has completed on a `data` that is an object with a `terms` array
HasTermsArray ==
    /\ result.status # "none"
    /\ data.t = "object" /\ data.hasTerms /\ data.termsT.t = "array"

Returned == result.status = "returned"

\* the per-term errors among result.errors that name input index i (0-based)
ErrorsAt(i) ==
    {k \in 1..Len(result.errors) :
        /\ result.errors[k].root = "terms"
        /\ result.errors[k].index = i
        /\ result.errors[k].message # "Duplicate term"}

IsString(v) == v.t = "string"
Given(v) == v.t # "absent" /\ v.t # "undefined"

\* the well-formedness of a `terms` element, as the claim words it
TermFieldOk(el) ==
    IsString(el.term) /\ \E k \in 1..Len(el.term.s) : el.term.s[k] \notin WhiteSpace
DefinitionFieldOk(el) == IsString(el.definition)
AbbreviationFieldOk(el) == Given(el.abbreviation) => IsString(el.abbreviation)
RelatedTermsFieldOk(el) ==
    Given(el.relatedTerms) =>
        /\ el.relatedTerms.t = "array"
        /\ \A k \in 1..Len(el.relatedTerms.a) : IsString(el.relatedTerms.a[k])
IdFieldOk(el) == Given(el.id) => IsString(el.id)
WellFormed(el) ==
    /\ el.t = "object"
    /\ TermFieldOk(el) /\ DefinitionFieldOk(el) /\ AbbreviationFieldOk(el)
    /\ RelatedTermsFieldOk(el) /\ IdFieldOk(el)

\* C1: with throwOnError=false and a `terms` array, no two records of the
\* returned data.terms have `term` values equal under case-folding (later
\* duplicates are excluded from data.terms).
C1_NoDuplicateTerms ==
    (Returned /\ HasTermsArray) =>
        \A i, j \in 1..Len(result.terms) :
            i # j => toLowerCase(result.terms[i].term.s)
                       # toLowerCase(result.terms[j].term.s)

\* C7: an element of `terms` is kept in data.terms exactly when its own checks
\* report no error, whatever the other elements are, and every excluded
\* element has a reported per-term error whose field path names its index.
C7_IndependentTerms ==
    (Returned /\ HasTermsArray) =>
        \A p \in 1..Len(data.terms) :
            /\ (p \in Range(result.from)) <=> (validateTerm(data.terms[p], 0) = <<>>)
            /\ (p \notin Range(result.from)) => ErrorsAt(p - 1) # {}
            /\ (p \in Range(result.from)) => ErrorsAt(p - 1) = {}

\* C7 witness: an invalid element is excluded and a later element is kept.
C7_Witness ==
    /\ Returned /\ HasTermsArray
    /\ \E p, q \in 1..Len(data.terms) :
          p < q /\ p \notin Range(result.from) /\ q \in Range(result.from)

\* the number of reported per-term errors for input index i, field prop, item sub
CountErrors(i, prop, sub) ==
    Cardinality({k \in ErrorsAt(i) :
                    result.errors[k].prop = prop /\ result.errors[k].sub = sub})

\* C8: an element passes its per-term checks iff it is well-formed; each
\* violated field yields exactly one error of its own, and each non-string
\* element of relatedTerms yields exactly one error carrying its index.
C8_PerTermChecks ==
    HasTermsArray =>
        \A p \in 1..Len(data.terms) :
            LET el == data.terms[p]
                i == p - 1
                rel == el.relatedTerms
            IN /\ (ErrorsAt(i) = {}) <=> WellFormed(el)
               /\ el.t # "object" =>
                     /\ Cardinality(ErrorsAt(i)) = 1
                     /\ CountErrors(i, "", -1) = 1
               /\ el.t = "object" =>
                     /\ CountErrors(i, "", -1) = 0
                     /\ CountErrors(i, "term", -1) = (IF TermFieldOk(el) THEN 0 ELSE 1)
                     /\ CountErrors(i, "definition", -1)
                          = (IF DefinitionFieldOk(el) THEN 0 ELSE 1)
                     /\ CountErrors(i, "abbreviation", -1)
                          = (IF AbbreviationFieldOk(el) THEN 0 ELSE 1)
                     /\ CountErrors(i, "id", -1) = (IF IdFieldOk(el) THEN 0 ELSE 1)
                     /\ CountErrors(i, "relatedTerms", -1)
                          = (IF Given(rel) /\ rel.t # "array" THEN 1 ELSE 0)
                     /\ \A k \in ErrorsAt(i) :
                          result.errors[k].sub < Len(rel.a)
                     /\ \A j \in 0..(Len(rel.a) - 1) :
                          CountErrors(i, "relatedTerms", j)
                            = (IF /\ Given(rel) /\ rel.t = "array"
                                  /\ ~IsString(rel.a[j + 1])
                               THEN 1 ELSE 0)

\* C8 witness: an element with two non-string relatedTerms items was checked.
C8_Witness ==
    /\ HasTermsArray
    /\ \E p \in 1..Len(data.terms) :
          /\ CountErrors(p - 1, "relatedTerms", 1) = 1
          /\ CountErrors(p - 1, "relatedTerms", 2) = 1

\* C9: the call raises iff throwOnError is true or omitted and an error was
\* collected; the raised error carries the error list a non-throwing call
\* returns; with throwOnError=false it returns, `valid` iff the list is empty.
C9_ThrowOnError ==
    result.status # "none" =>
        LET quiet == validateGlossaryData(data, "false")
        IN /\ (result.status = "thrown")
                <=> (options \in {"omitted", "true"} /\ quiet.errors # <<>>)
           /\ result.errors = quiet.errors
           /\ options = "false" =>
                /\ Returned
                /\ result.valid <=> (result.errors = <<>>)
           /\ Returned => (result.valid <=> (result.errors = <<>>))

\* C9 witness: the option was omitted and the call raised with several errors.
C9_Witness ==
    result.status = "thrown" /\ options = "omitted" /\ Len(result.errors) > 1

\* `data` is null, undefined, no object, lacks `terms`, or `terms` is no array
BadRoot ==
    \/ data.t \in {"null", "undefined"}
    \/ data.t \notin {"object", "array"}
    \/ ~data.hasTerms
    \/ data.termsT.t # "array"

\* C10: on such a `data` exactly one error is reported, with field `root` or
\* `terms`, no element of `terms` is checked, and the term list is empty.
C10_RootErrors ==
    (result.status # "none" /\ BadRoot) =>
        /\ Len(result.errors) = 1
        /\ result.errors[1].index = -1 /\ result.errors[1].prop = ""
        /\ result.errors[1].root
             = (IF data.t \in {"object", "array"} THEN "terms" ELSE "root")
        /\ result.terms = <<>>
        /\ ~result.valid

\* C10 witness: a returned call on an object whose `terms` holds elements but
\* is no array.
C10_Witness ==
    /\ Returned /\ BadRoot
    /\ data.hasTerms /\ Len(data.terms) > 0

\* a reachable state where the duplicate check has reported a duplicate
C1_DuplicateReported ==
    /\ Returned /\ HasTermsArray
    /\ \E k \in 1..Len(result.errors) : result.errors[k].message = "Duplicate term"

-----------------------------------------------------------------------------
(* Claims about the scanner (checked under Spec; C5 under SpecCjs)         *)

\* every node below `node` with its place: parent object, parent type, index
RECURSIVE Links(_)
Links(node) ==
    UNION {{[id |-> node.children[i].id, type |-> node.children[i].type,
             value |-> node.children[i].value, parent |-> node.id,
             parentType |-> node.type, index |-> i - 1]}
           \cup Links(node.children[i]) : i \in 1..Len(node.children)}

\* the character at 0-based position i of `text` is absent or no word character
BoundaryAt(text, i) ==
    i < 0 \/ i >= Len(text) \/ text[i + 1] \notin WordChars

\* the last transformer call replaced a text node by nodes holding an annotation
EmittedAnnotation == \E k \in 1..Len(log) : log[k].inserted > 0

\* a top-level declaration that references @theme/GlossaryTerm
DeclaresGlossaryTerm(n) ==
    /\ n.type = "mdxjsEsm"
    /\ \/ (n.value # Undefined /\ GlossaryTermModule \in Range(n.value))
       \/ \E k \in 1..Len(n.estree) : n.estree[k].source = GlossaryTermModule

Declarations(root) ==
    {i \in 1..Len(root.children) : DeclaresGlossaryTerm(root.children[i])}

\* C2: every match accepted in a scanned text node is a whole-word match: the
\* character before the span and the character after the (exact or plural)
\* span are each absent or a non-word character.
C2_WholeWordMatches ==
    \A k \in 1..Len(log) :
        \A j \in 1..Len(log[k].matches) :
            LET m == log[k].matches[j]
            IN /\ BoundaryAt(log[k].value, m.index - 1)
               /\ BoundaryAt(log[k].value, m.index + m.length)

\* C3: a text node whose immediate parent is code, inlineCode, link or an MDX
\* JSX element is never scanned, and after the call it is the same node with
\* the same value at the same place under the same parent.
C3_ProtectedParents ==
    calls > 0 =>
        \A l \in Links(before) :
            (l.type = "text" /\ l.parentType \in
                {"code", "inlineCode", "link", "mdxJsxFlowElement",
                 "mdxJsxTextElement"}) =>
                /\ l \in Links(tree)
                /\ \A k \in 1..Len(log) : log[k].id = l.id => ~log[k].scanned
                /\ \A n \in Links(tree) : n.parent = l.parent => n \in Links(before)

\* C3 witness: a text node under a link holds a term, and the same call
\* rewrote another text node.
C3_Witness ==
    /\ calls > 0
    /\ EmittedAnnotation
    /\ \E l \in Links(before) :
          /\ l.type = "text" /\ l.parentType = "link"
          /\ findMatches(l.value, sortedTerms) # <<>>

\* C4: however many transformer calls are made on the tree, at most one import
\* is injected and the top level holds at most one declaration referencing
\* @theme/GlossaryTerm; a call on a tree that already holds one injects none.
C4_ImportInjectedOnce ==
    /\ injected <= 1
    /\ Cardinality(Declarations(tree)) <= 1
    /\ (calls > 0 /\ Declarations(before) # {}) =>
          {n \in Range(tree.children) : n.type = "mdxjsEsm"}
            = {n \in Range(before.children) : n.type = "mdxjsEsm"}

\* C4 witness: the first call injected the import and the second call, which
\* again emitted an annotation, found it.
C4_Witness ==
    /\ calls = 2
    /\ injected = 1
    /\ EmittedAnnotation

\* C5: a transformer call that emits an annotation node, inline or flow,
\* leaves a top-level declaration importing GlossaryTerm in the tree; a call
\* that emits none adds no top-level node.
C5_ImportWhenUsed ==
    calls > 0 =>
        /\ EmittedAnnotation => Declarations(tree) # {}
        /\ ~EmittedAnnotation => Len(tree.children) = Len(before.children)

\* a reachable state where a call emitted an inline annotation under a paragraph
C5_InlineEmitted ==
    /\ calls > 0
    /\ \E k \in 1..Len(log) : log[k].inserted > 0 /\ log[k].parentType = "paragraph"

\* C6: a scanner built from a term list with no non-empty `term` is the
\* identity: the tree is left as it was and no import is injected.
C6_EmptyGlossaryIsIdentity ==
    (calls > 0 /\ \A i \in 1..Len(glossaryTerms) : glossaryTerms[i].term \in {<<>>, Undefined})
        => (tree = before /\ injected = 0)

\* C6 witness: a scanner built from records without a term ran on a tree with text.
C6_Witness ==
    /\ calls > 0
    /\ glossaryTerms # <<>>
    /\ \A i \in 1..Len(glossaryTerms) : glossaryTerms[i].term \in {<<>>, Undefined}
    /\ \E l \in Links(tree) : l.type = "text" /\ l.parentType = "paragraph"
                               /\ Len(l.value) > 1

-----------------------------------------------------------------------------
(* Claims about the matches of one text node (checked under Spec)          *)

\* `term` occurs in `text` at 0-based offset i, compared case-insensitively
OccursAt(text, term, i) ==
    /\ i >= 0
    /\ i + Len(term) <= Len(text)
    /\ toLowerCase(SubSeq(text, i + 1, i + Len(term))) = toLowerCase(term)

\* `text` continues at offset i with the letters of `suffix`, in either case
FollowedBy(text, i, suffix) ==
    /\ i + Len(suffix) <= Len(text)
    /\ toLowerCase(SubSeq(text, i + 1, i + Len(suffix))) = suffix

\* the length of the match the occurrence of `term` at offset i is to produce:
\* exact, plural in s, plural in es, or none (-1)
ExpectedLength(text, term, i) ==
    LET L == Len(term)
    IN IF BoundaryAt(text, i + L) THEN L
       ELSE IF FollowedBy(text, i + L, <<"s">>) /\ BoundaryAt(text, i + L + 1)
       THEN L + 1
       ELSE IF FollowedBy(text, i + L, <<"e", "s">>) /\ BoundaryAt(text, i + L + 2)
       THEN L + 2
       ELSE -1

\* the matches the scan of log entry k pushed for entry e of sortedTerms at offset i
MatchesAt(k, e, i) ==
    {j \in 1..Len(log[k].matches) :
        /\ log[k].matches[j].termObj = sortedTerms[e].value
        /\ log[k].matches[j].index = i}

\* a visitor invocation that ran replaceTermsInText on a string
ScannedText(k) == log[k].scanned /\ log[k].value # Undefined

\* C11: an occurrence of a term of length L with a boundary before it yields
\* at most one match: of length L when a boundary follows, else L+1 when `s`
\* and a boundary follow, else L+2 when `es` and a boundary follow, else none;
\* the captured substring is the source text of exactly that span.
C11_PluralTolerantMatch ==
    \A k \in 1..Len(log) :
        ScannedText(k) =>
            \A e \in 1..Len(sortedTerms) :
                \A i \in 0..(Len(log[k].value) - 1) :
                    LET text == log[k].value
                        term == sortedTerms[e].value.term
                        want == ExpectedLength(text, term, i)
                    IN (OccursAt(text, term, i) /\ BoundaryAt(text, i - 1)) =>
                          IF want = -1 THEN MatchesAt(k, e, i) = {}
                          ELSE /\ Cardinality(MatchesAt(k, e, i)) = 1
                               /\ \A j \in MatchesAt(k, e, i) :
                                     /\ log[k].matches[j].length = want
                                     /\ log[k].matches[j].originalText
                                          = SubSeq(text, i + 1, i + want)

\* a GlossaryTerm element, flow or inline
IsAnnotation(n) ==
    n.type \in {"mdxJsxFlowElement", "mdxJsxTextElement"} /\ n.name = "GlossaryTerm"

\* the annotation nodes that replaced the text node of log entry k, in order
Annotations(k) == SelectSeq(log[k].nodes, IsAnnotation)

\* match m is one of the matches kept for log entry k
Kept(k, m) == \E j \in 1..Len(log[k].kept) : log[k].kept[j] = m

\* the length of the key under which the term of match m is indexed
KeyLength(m) == Len(toLowerCase(m.term))

\* the spans of matches a and b share a character
Overlap(a, b) ==
    a.index < b.index + b.length /\ b.index < a.index + a.length

KeptPositions(k) == {i \in 1..Len(log[k].matches) : Kept(k, log[k].matches[i])}

\* the end of the last kept candidate before position i of log[k].matches
LastKeptEnd(k, i) ==
    LET earlier == {j \in KeptPositions(k) : j < i}
    IN IF earlier = {} THEN 0
       ELSE LET last == CHOOSE j \in earlier : \A h \in earlier : h <= j
            IN log[k].matches[last].index + log[k].matches[last].length

\* C13: the candidates are ordered by ascending start and, at equal start, by
\* descending term length; a candidate is kept exactly when it starts at or
\* after the end of the last kept one; kept matches are pairwise
\* non-overlapping and strictly ascending, and every discarded candidate
\* overlaps a kept one.
C13_GreedyLeftmostFirst ==
    \A k \in 1..Len(log) :
        LET matches == log[k].matches
            kept == log[k].kept
        IN /\ \A i, j \in 1..Len(matches) :
                 i < j => /\ matches[i].index <= matches[j].index
                          /\ matches[i].index = matches[j].index =>
                                KeyLength(matches[i]) >= KeyLength(matches[j])
           /\ \A i \in 1..Len(matches) :
                 Kept(k, matches[i]) <=> matches[i].index >= LastKeptEnd(k, i)
           /\ Len(kept) = Cardinality(KeptPositions(k))
           /\ \A i \in 1..Len(kept) : \E j \in 1..Len(matches) : matches[j] = kept[i]
           /\ \A i, j \in 1..Len(kept) :
                 i < j => /\ kept[i].index + kept[i].length <= kept[j].index
                          /\ kept[i].index < kept[j].index
                          /\ ~Overlap(kept[i], kept[j])
           /\ \A i \in 1..Len(matches) :
                 ~Kept(k, matches[i]) =>
                    \E j \in 1..Len(kept) : Overlap(kept[j], matches[i])

\* C13 witness: one text node with two kept matches and a discarded candidate
C13_Witness ==
    \E k \in 1..Len(log) :
        /\ Len(log[k].kept) >= 2
        /\ Len(log[k].matches) > Len(log[k].kept)

-----------------------------------------------------------------------------
(* Claims about the nodes that replace a text node (checked under Spec)    *)

\* the text a replacement node shows: a fragment's value, an annotation's child text
ShownText(n) == IF n.type = "text" THEN n.value ELSE n.children[1].value

RECURSIVE Concatenation(_)
Concatenation(nodes) ==
    IF nodes = <<>> THEN <<>>
    ELSE ShownText(Head(nodes)) \o Concatenation(Tail(nodes))

\* C14: the texts shown by the nodes that replace a text node concatenate to
\* its value; no plain-text fragment is empty and no two are adjacent; a text
\* node with no match stays the same single node.
C14_TextPreserved ==
    \A k \in 1..Len(log) :
        /\ log[k].inserted > 0 =>
              /\ Concatenation(log[k].nodes) = log[k].value
              /\ \A i \in 1..Len(log[k].nodes) :
                    log[k].nodes[i].type = "text" => log[k].nodes[i].value # <<>>
              /\ \A i \in 1..(Len(log[k].nodes) - 1) :
                    ~(log[k].nodes[i].type = "text" /\ log[k].nodes[i + 1].type = "text")
        /\ (log[k].scanned /\ log[k].matches = <<>>) =>
              /\ log[k].inserted = 0
              /\ \E l \in Links(tree) :
                    /\ l.id = log[k].id /\ l.type = "text"
                    /\ l.value = log[k].value /\ l.parent = log[k].parent

\* C15: an annotation node emitted for a text node is an mdxJsxTextElement
\* exactly when the text node's parent is a paragraph, and an
\* mdxJsxFlowElement under every other parent; it is in the tree as such.
C15_InlineIffParagraph ==
    \A k \in 1..Len(log) :
        \A i \in 1..Len(log[k].nodes) :
            LET n == log[k].nodes[i]
            IN n.type # "text" =>
                  /\ n.type = "mdxJsxTextElement" <=> log[k].parentType = "paragraph"
                  /\ n.type = "mdxJsxFlowElement" <=> log[k].parentType # "paragraph"
                  /\ \E l \in Links(tree) :
                        /\ l.id = n.id /\ l.type = n.type
                        /\ l.parent = log[k].parent

\* C15 witness: one call emitted an inline annotation under a paragraph and a
\* flow annotation under another parent.
C15_Witness ==
    /\ \E k \in 1..Len(log) :
          /\ log[k].parentType = "paragraph"
          /\ \E i \in 1..Len(log[k].nodes) : log[k].nodes[i].type = "mdxJsxTextElement"
    /\ \E k \in 1..Len(log) :
          /\ log[k].parentType \in {"heading", "root", "emphasis"}
          /\ \E i \in 1..Len(log[k].nodes) : log[k].nodes[i].type = "mdxJsxFlowElement"

\* the value of attribute `name` of node n, when it has exactly one such attribute
AttributeValue(n, name) ==
    LET at == {i \in 1..Len(n.attributes) : n.attributes[i].name = name}
    IN n.attributes[CHOOSE i \in at : TRUE].value

\* C16: matching ignores case, and the annotation node of a kept match carries
\* exactly the attributes term, definition and routePath, taken from one
\* glossary record and from the configured route, and exactly one child: a text
\* node holding the span of the source text where the term occurs, as written
\* there.
C16_AnnotationContent ==
    \A k \in 1..Len(log) :
        \A j \in 1..Len(Annotations(k)) :
            LET n == Annotations(k)[j]
                m == log[k].kept[j]
            IN /\ Len(n.attributes) = 3
               /\ \A name \in {"term", "definition", "routePath"} :
                     Cardinality({i \in 1..3 : n.attributes[i].name = name}) = 1
               /\ \E r \in 1..Len(glossaryTerms) :
                     /\ glossaryTerms[r].term = AttributeValue(n, "term")
                     /\ glossaryTerms[r].definition = AttributeValue(n, "definition")
               /\ AttributeValue(n, "routePath") = routePath
               /\ Len(n.children) = 1
               /\ n.children[1].type = "text"
               /\ OccursAt(log[k].value, AttributeValue(n, "term"), m.index)
               /\ n.children[1].value
                    = SubSeq(log[k].value, m.index + 1, m.index + m.length)
               /\ Len(n.children[1].value) = m.length

-----------------------------------------------------------------------------
(* Claims about the import's place (checked under Spec)                    *)

\* the top-level positions of `tree` holding an mdxjsEsm node the last call added
NewImports ==
    {i \in 1..Len(tree.children) :
        /\ tree.children[i].type = "mdxjsEsm"
        /\ \A j \in 1..Len(before.children) :
              before.children[j].id # tree.children[i].id}

FrontMatter == {"yaml", "toml"}

-----------------------------------------------------------------------------
(* Claims about failures of the transformer (checked under Spec)           *)

\* C18: a transformer call never raises, whatever the tree: a text node with
\* an empty or undefined value or without a parent counts as having no match,
\* and the call returns with that node as it was.
C18_TransformNeverRaises ==
    calls > 0 =>
        /\ ~thrown
        /\ \A l \in Links(before) :
              (l.type = "text" /\ (l.value = <<>> \/ l.value = Undefined)) =>
                  \E n \in Links(tree) :
                      /\ n.id = l.id /\ n.type = "text"
                      /\ n.value = l.value /\ n.parent = l.parent
        /\ before.type = "text" => tree = before

-----------------------------------------------------------------------------
(* Claims about the order of the validator's output (checked under SpecV)  *)

\* the phase that pushes an error: root checks, per-term checks, duplicate check
Phase(e) ==
    IF e.index = -1 THEN 0 ELSE IF e.message = "Duplicate term" THEN 2 ELSE 1

\* the place of a field among the checks of validateTerm
FieldOrder(prop) ==
    CASE prop = "" -> 0 [] prop = "term" -> 1 [] prop = "definition" -> 2
      [] prop = "abbreviation" -> 3 [] prop = "relatedTerms" -> 4
      [] prop = "id" -> 5

\* error a is pushed before error b
ErrorBefore(a, b) ==
    \/ Phase(a) < Phase(b)
    \/ /\ Phase(a) = 1 /\ Phase(b) = 1
       /\ \/ a.index < b.index
          \/ a.index = b.index /\ FieldOrder(a.prop) < FieldOrder(b.prop)
          \/ /\ a.index = b.index /\ a.prop = "relatedTerms" /\ b.prop = "relatedTerms"
             /\ a.sub < b.sub
    \/ Phase(a) = 2 /\ Phase(b) = 2 /\ a.index < b.index

\* C19: the outcome is a function of the arguments; the returned terms keep
\* the relative order of the input, and the errors come as root checks, then
\* per-term errors by ascending input index (term, definition, abbreviation,
\* relatedTerms elements by index, id), then duplicate errors by ascending index.
C19_OrderPreserved ==
    result.status # "none" =>
        /\ result = validateGlossaryData(data, options)
        /\ \A i, j \in 1..Len(result.errors) :
              i < j => ErrorBefore(result.errors[i], result.errors[j])
        /\ Len(result.from) = Len(result.terms)
        /\ \A i, j \in 1..Len(result.from) : i < j => result.from[i] < result.from[j]
        /\ \A i \in 1..Len(result.from) :
              result.terms[i] = data.terms[result.from[i]]

\* C19 witness: a returned result with two terms that were not adjacent in the
\* input, errors for two elements of one relatedTerms array, and a duplicate
\* error.
C19_Witness ==
    /\ Returned
    /\ Len(result.terms) >= 2
    /\ \E i, j, d \in 1..Len(result.errors) :
          /\ i < j /\ j < d
          /\ result.errors[i].prop = "relatedTerms" /\ result.errors[i].sub >= 0
          /\ result.errors[j].prop = "relatedTerms"
          /\ result.errors[j].index = result.errors[i].index
          /\ result.errors[d].message = "Duplicate term"
    /\ result.from[1] + 1 < result.from[2]

\* C20: every record of the returned terms has a `term` string that is
\* non-empty and has no leading or trailing whitespace.
C20_TermsTrimmed ==
    Returned =>
        \A i \in 1..Len(result.terms) :
            /\ IsString(result.terms[i].term)
            /\ result.terms[i].term.s # <<>>
            /\ trim(result.terms[i].term.s) = result.terms[i].term.s

\* what the code ensures: a `term` string with a non-whitespace character
C20_TermsNotBlank ==
    Returned =>
        \A i \in 1..Len(result.terms) :
            /\ IsString(result.terms[i].term)
            /\ trim(result.terms[i].term.s) # <<>>

-----------------------------------------------------------------------------
(* Claims about nesting and the shape of the tree (checked under Spec)     *)

\* `node` and every node below it
RECURSIVE Subtrees(_)
Subtrees(node) ==
    {node} \cup UNION {Subtrees(node.children[i]) : i \in 1..Len(node.children)}

\* the identities of the objects in the tree under `root`
Ids(root) == {n.id : n \in Subtrees(root)}

\* a GlossaryTerm element the last call created
NewAnnotation(n) == IsAnnotation(n) /\ n.id \notin Ids(before)

\* C21: no annotation node the call created lies, at any depth, below a link
\* or an MDX JSX element that was in the tree before the call.
C21_NothingBelowLinks ==
    calls > 0 =>
        \A s \in Subtrees(tree) :
            (/\ s.type \in {"link", "mdxJsxFlowElement", "mdxJsxTextElement"}
             /\ s.id \in Ids(before)) =>
                \A d \in Subtrees(s) : ~NewAnnotation(d)


\* the text node with this identity was replaced by fragments in the last call
Rewritten(id) == \E k \in 1..Len(log) : log[k].id = id /\ log[k].inserted > 0

\* the position record of the node with this identity below `root`
LinkOf(root, id) == CHOOSE l \in Links(root) : l.id = id

\* the fragments that replaced the text node with this identity
FragmentsOf(id) ==
    log[CHOOSE k \in 1..Len(log) : log[k].id = id /\ log[k].inserted > 0].nodes

\* the nodes that stand for `nodes` when the call is over: a fragment that was
\* rewritten in its turn is replaced by its own fragments
RECURSIVE Expansion(_)
Expansion(nodes) ==
    IF nodes = <<>> THEN <<>>
    ELSE (IF Rewritten(nodes[1].id) THEN Expansion(FragmentsOf(nodes[1].id))
          ELSE <<nodes[1]>>)
         \o Expansion(Tail(nodes))

\* the fragments of rewrite k sit side by side under the parent of the text
\* they replace, from child `base` on
FragmentsAt(k, base) ==
    \A j \in 1..Len(Expansion(log[k].nodes)) :
        \E n \in Links(tree) :
            /\ n.id = Expansion(log[k].nodes)[j].id
            /\ n.type = Expansion(log[k].nodes)[j].type
            /\ n.parent = log[k].parent
            /\ n.index = base + j - 1

\* the siblings the rewritten text of rewrite k had before the call lie on the
\* same side of its fragments as they lay of the text
SiblingsAround(k, base) ==
    \A l \in Links(before) : \A n \in Links(tree) :
        (/\ l.parent = log[k].parent /\ l.id # log[k].id
         /\ n.id = l.id /\ LinkOf(before, log[k].id).index # l.index) =>
            IF l.index < LinkOf(before, log[k].id).index
            THEN n.index < base
            ELSE n.index >= base + Len(Expansion(log[k].nodes))

\* a node of the tree that the last call made: a fragment, the text inside an
\* annotation fragment, or the import
MadeByCall(n) ==
    \/ \E k \in 1..Len(log) : \E j \in 1..log[k].inserted :
          \/ n.id = log[k].nodes[j].id
          \/ /\ IsAnnotation(log[k].nodes[j])
             /\ n.parent = log[k].nodes[j].id
             /\ n.id = log[k].nodes[j].children[1].id
    \/ \E i \in NewImports : n.parent = tree.id /\ n.index = i - 1

\* C22: after a call the tree is well-formed and differs from the tree before
\* only in the rewritten text nodes and the import: no object sits at two
\* positions, every node that was not rewritten keeps its parent and its order
\* among its siblings, every rewritten text is gone and its fragments stand
\* in its place, and every other node is one the tree held before.
C22_OnlyRewritesAndImport ==
    (calls > 0 /\ ~thrown) =>
        /\ \A x, y \in Links(tree) : x.id = y.id => x = y
        /\ \A x \in Links(tree) : x.id # tree.id
        /\ \A l \in Links(before) :
              IF Rewritten(l.id)
              THEN l.id \notin Ids(tree)
              ELSE \E n \in Links(tree) :
                      /\ n.id = l.id /\ n.type = l.type
                      /\ n.value = l.value /\ n.parent = l.parent
        /\ \A x, y \in Links(tree) :
              (/\ x.parent = y.parent /\ x.index < y.index
               /\ x.id \in Ids(before) /\ y.id \in Ids(before)) =>
                  LinkOf(before, x.id).index < LinkOf(before, y.id).index
        /\ \A k \in 1..Len(log) :
              (log[k].inserted > 0 /\ log[k].id \in Ids(before)) =>
                  \E base \in 0..MaxId(tree) :
                      FragmentsAt(k, base) /\ SiblingsAround(k, base)
        /\ \A n \in Links(tree) : n.id \in Ids(before) \/ MadeByCall(n)

\* C22 witness: a text with a sibling behind it was replaced by two fragments
\* or more, another text of the tree was scanned and left alone, and the
\* import was injected.
C22_Witness ==
    /\ calls > 0
    /\ ~thrown
    /\ NewImports # {}
    /\ \E k \in 1..Len(log) :
          /\ log[k].inserted > 1
          /\ \E l \in Links(before) :
                /\ l.parent = log[k].parent
                /\ l.index > LinkOf(before, log[k].id).index
    /\ \E k \in 1..Len(log) :
          /\ log[k].scanned /\ log[k].inserted = 0
          /\ log[k].id \in Ids(before)


-----------------------------------------------------------------------------
(* Claims about the glossary file cache (checked under SpecCache)          *)

\* the last construction had no explicit terms and named a file
FromFile ==
    /\ load.n > 0
    /\ load.opt.terms = <<>>
    /\ load.opt.glossaryPath # NoPath
    /\ load.opt.siteDir \notin {NoPath, NumberDir}

\* the key of the last construction, and the entry it found under it
LoadKey == resolve(load.opt.siteDir, load.opt.glossaryPath)
Cached == load.before[LoadKey]

\* the last construction found no entry or one that is CACHE_TTL old or older
Miss == ~Cached.present \/ load.t - Cached.loadedAt >= CACHE_TTL

\* the term list a load of the file the last construction saw yields
NewlyLoaded ==
    IF load.file.kind = "json" THEN validateGlossaryTerms(load.file.data).terms
    ELSE <<>>

\* what the last construction did on a hit, and to the other keys on a miss
HitOrMiss ==
    /\ load.touched <=> Miss
    /\ \A p \in Keys : p # LoadKey => load.after[p] = load.before[p]
    /\ ~Miss =>
          /\ load.ref = Cached.terms
          /\ load.after[LoadKey] = Cached
          /\ glossaryTerms = scannerTerms(heap[Cached.terms])
    /\ Miss =>
          /\ load.after[LoadKey].present
          /\ load.after[LoadKey].terms \notin
                {load.before[p].terms : p \in Keys}
          /\ heap[load.after[LoadKey].terms] = NewlyLoaded

\* a construction with explicit terms or without a file leaves the cache and
\* the file alone
NoLoadNeeded ==
    (load.n > 0 /\ ~FromFile) => (~load.touched /\ load.after = load.before)

\* C23 as stated: a construction without explicit terms asks for the file
\* exactly when there is no entry for the resolved path or the entry is
\* CACHE_TTL old; on a hit it uses the cached list and leaves the entry, on a
\* miss the entry becomes the newly loaded list with loadedAt = t, the time
\* of the construction.
C23_StampedWithConstructionTime ==
    /\ NoLoadNeeded
    /\ FromFile =>
          /\ HitOrMiss
          /\ Miss => load.after[LoadKey].loadedAt = load.t

\* C23 amended: as above, but when reading the file raises, loadedAt is the
\* time read while the failure is handled, which is t or later.
C23_CachedWithTimeToLive ==
    /\ NoLoadNeeded
    /\ FromFile =>
          /\ HitOrMiss
          /\ Miss =>
                IF load.file.kind = "unreadable"
                THEN /\ load.after[LoadKey].loadedAt >= load.t
                     /\ load.after[LoadKey].loadedAt <= now
                ELSE load.after[LoadKey].loadedAt = load.t

\* C23 witness: the second construction found an entry that was CACHE_TTL - 1
\* old and used its list although the file held other terms by then.
C23_Witness ==
    /\ FromFile
    /\ ~Miss
    /\ load.t - Cached.loadedAt = CACHE_TTL - 1
    /\ load.file.kind = "json"
    /\ heap[load.ref] # NewlyLoaded
    /\ heap[load.ref] # <<>>

\* every entry is complete: an array the loader made, every element of which
\* passed validateGlossaryTerms, and a time
Snapshot(entry) ==
    /\ entry.terms \in 1..Len(heap)
    /\ entry.loadedAt \in Times
    /\ \A i \in 1..Len(heap[entry.terms]) :
          LET e == heap[entry.terms][i]
          IN /\ e.t = "object"
             /\ e.term.t = "string" /\ trim(e.term.s) # <<>>
             /\ e.definition.t = "string"

\* a step changes an entry only by clearing it or by putting a whole new entry
\* with a new array in its place, which the construction of that step made
WholeReplace ==
    \A p \in Keys :
        glossaryCache'[p] # glossaryCache[p] =>
            \/ ~glossaryCache'[p].present
            \/ /\ load'.n = load.n + 1
               /\ resolve(load'.opt.siteDir, load'.opt.glossaryPath) = p
               /\ glossaryCache'[p] = load'.after[p]
               /\ glossaryCache'[p].terms = Len(heap')
               /\ Len(heap') = Len(heap) + 1

\* no step changes an array that exists
ArraysKept == \A i \in 1..Len(heap) : heap'[i] = heap[i]

\* C24: under every interleaving of constructions, transformer calls, file
\* changes and clock ticks, every entry of the cache is a complete snapshot,
\* no array a load has made is ever modified, and an entry only changes by
\* being replaced as a whole by the construction that writes last.
C24_EntriesAreSnapshots ==
    /\ [](\A p \in Keys : glossaryCache[p].present => Snapshot(glossaryCache[p]))
    /\ [][ArraysKept /\ WholeReplace]_vars

\* C24 witness: two constructions loaded the same path, the second replaced
\* the entry of the first, and a transformer call ran on the document.
C24_Witness ==
    /\ FromFile
    /\ load.n = 2
    /\ Cached.present
    /\ Miss
    /\ heap[Cached.terms] # <<>>
    /\ heap[load.after[LoadKey].terms] # <<>>
    /\ glossaryCache[LoadKey] = load.after[LoadKey]
    /\ calls > 0

\* the file the last construction saw could not be loaded
FailedLoad == load.file.kind \in {"missing", "unparsable", "unreadable"}

\* C26: a construction whose load fails raises nothing, leaves an entry with
\* an empty list stamped with the time of the failure, and returns the
\* identity transformer; a construction that finds such an entry younger than
\* CACHE_TTL does not ask for the file and returns the identity transformer.
C26_FailedLoadIsCached ==
    FromFile =>
        /\ ~load.raised
        /\ (Miss /\ FailedLoad) =>
              /\ load.after[LoadKey].present
              /\ heap[load.after[LoadKey].terms] = <<>>
              /\ load.after[LoadKey].loadedAt >= load.t
              /\ load.after[LoadKey].loadedAt <= now
              /\ load.identity
        /\ (/\ Cached.present
            /\ load.t - Cached.loadedAt < CACHE_TTL
            /\ heap[Cached.terms] = <<>>) =>
              (~load.touched /\ ~load.read /\ load.identity)

\* C26 witness: the second construction found the entry a failed load had
\* left, did not ask for the file, which held valid terms by then, and
\* returned the identity transformer.
C26_Witness ==
    /\ FromFile
    /\ load.n = 2
    /\ Cached.present
    /\ heap[Cached.terms] = <<>>
    /\ ~load.touched
    /\ load.identity
    /\ load.file.kind = "json"
    /\ NewlyLoaded # <<>>


\* the text nodes of the tree as it was before the call
InputTexts == {l \in Links(before) : l.type = "text"}

\* the visitor invocation k of the last call was made on a node that a rewrite
\* of the same call had inserted, or on the text inside such a node
VisitsInserted(k) == log[k].id \notin Ids(before)

\* C25: in one call every text node of the input is visited, and scanned at
\* most once, and no node a rewrite inserted is visited again: the walk
\* resumes behind the last inserted fragment.
C25_InsertedNeverVisited ==
    (calls > 0 /\ ~thrown /\ sortedTerms # <<>>) =>
        /\ \A l \in InputTexts : \E k \in 1..Len(log) : log[k].id = l.id
        /\ \A j, k \in 1..Len(log) : log[j].id = log[k].id => j = k
        /\ \A k \in 1..Len(log) : ~VisitsInserted(k)

\* what the walk does instead: every input text is visited exactly once, and
\* the only inserted nodes visited are the last fragment of a rewrite, when it
\* is a text, or the text inside it, when it is an annotation
C25_LastFragmentVisitedAgain ==
    (calls > 0 /\ ~thrown /\ sortedTerms # <<>>) =>
        /\ \A l \in InputTexts : \E k \in 1..Len(log) : log[k].id = l.id
        /\ \A j, k \in 1..Len(log) : log[j].id = log[k].id => j = k
        /\ \A k \in 1..Len(log) :
              VisitsInserted(k) =>
                  \E j \in 1..(k - 1) :
                      /\ log[j].inserted > 0
                      /\ LET last == log[j].nodes[log[j].inserted]
                         IN \/ last.id = log[k].id
                            \/ /\ IsAnnotation(last)
                               /\ last.children[1].id = log[k].id
                               /\ ~log[k].scanned
        /\ \A j \in 1..Len(log) :
              log[j].inserted > 0 =>
                  \E k \in (j + 1)..Len(log) :
                      LET last == log[j].nodes[log[j].inserted]
                      IN \/ last.id = log[k].id
                         \/ /\ IsAnnotation(last)
                            /\ last.children[1].id = log[k].id


-----------------------------------------------------------------------------
(* Claims about the indexes in validation errors (checked under SpecV)     *)

\* the element at input index i is a well-formed record named as the one at j
SameName(i, j) ==
    /\ WellFormed(data.terms[i + 1])
    /\ WellFormed(data.terms[j + 1])
    /\ toLowerCase(data.terms[i + 1].term.s) = toLowerCase(data.terms[j + 1].term.s)

\* C27: every index in an error is an index of the input `terms`: an error of
\* the per-term checks names an element that fails them, a duplicate error
\* names the input index of the duplicate and, in its message, the input index
\* of the first well-formed element of that name.
C27_IndexesAreInputIndexes ==
    HasTermsArray =>
        \A k \in 1..Len(result.errors) :
            LET e == result.errors[k]
            IN e.index # -1 =>
                  /\ e.index < Len(data.terms)
                  /\ IF e.message = "Duplicate term"
                     THEN /\ e.first >= 0 /\ e.first < e.index
                          /\ SameName(e.index, e.first)
                          /\ \A j \in 0..(e.first - 1) : ~SameName(e.index, j)
                     ELSE ~WellFormed(data.terms[e.index + 1])

\* when no invalid element stands in front of the duplicate, the indexes of a
\* duplicate error are input indexes
C27_HoldsBehindValidElements ==
    HasTermsArray =>
        \A k \in 1..Len(result.errors) :
            LET e == result.errors[k]
            IN (/\ e.message = "Duplicate term"
                /\ \A j \in 0..e.index : j < Len(data.terms) =>
                                            WellFormed(data.terms[j + 1])) =>
                  /\ e.first >= 0 /\ e.first < e.index
                  /\ SameName(e.index, e.first)


-----------------------------------------------------------------------------
(* Claims about records of the same name, repeated calls and termination   *)
(* (checked under Spec)                                                    *)

\* the places in glossaryTerms of the records named as `term` under case-folding
Namesakes(term) ==
    {i \in 1..Len(glossaryTerms) :
        /\ ~Falsy(glossaryTerms[i].term)
        /\ toLowerCase(glossaryTerms[i].term) = toLowerCase(term)}

\* annotation n carries the term and the definition of record i
Carries(n, i) ==
    /\ AttributeValue(n, "term") = glossaryTerms[i].term
    /\ AttributeValue(n, "definition") =
          (IF Falsy(glossaryTerms[i].definition) THEN <<>>
           ELSE glossaryTerms[i].definition)

\* C28: an annotation the call created carries term and definition of the
\* first record of glossaryTerms that has its term under case-folding.
C28_FirstRecordWins ==
    \A k \in 1..Len(log) : \A j \in 1..Len(log[k].nodes) :
        IsAnnotation(log[k].nodes[j]) =>
            LET same == Namesakes(AttributeValue(log[k].nodes[j], "term"))
            IN /\ same # {}
               /\ Carries(log[k].nodes[j],
                          CHOOSE i \in same : \A h \in same : i <= h)

\* what termMap.set gives instead: the last record of that name is carried
C28_LastRecordWins ==
    \A k \in 1..Len(log) : \A j \in 1..Len(log[k].nodes) :
        IsAnnotation(log[k].nodes[j]) =>
            LET same == Namesakes(AttributeValue(log[k].nodes[j], "term"))
            IN /\ same # {}
               /\ Carries(log[k].nodes[j],
                          CHOOSE i \in same : \A h \in same : i >= h)


\* C29: a second call on the tree a first call has transformed changes
\* nothing: no text node is rewritten, no annotation is created, no import is
\* injected.
C29_SecondCallChangesNothing ==
    (calls = 2 /\ ~thrown) =>
        /\ tree = before
        /\ \A k \in 1..Len(log) : log[k].inserted = 0

\* whatever the second call rewrites, it injects no second import
C29_SecondCallInjectsNoImport ==
    calls = 2 => NewImports = {}


-----------------------------------------------------------------------------
(* Claims about termination (checked under SpecWalk)                       *)

\* the characters of the text nodes at and below `n` that a visit would scan
RECURSIVE ScanLength(_, _)
RECURSIVE ScanFrom(_, _)
ScanLength(n, parentType) ==
    IF n.type = "text"
    THEN IF parentType \in Protected \/ n.value = Undefined THEN 0
         ELSE Len(n.value)
    ELSE ScanFrom(n, 0)

ScanFrom(node, i) ==
    IF i >= Len(node.children) THEN 0
    ELSE ScanLength(node.children[i + 1], node.type) + ScanFrom(node, i + 1)

\* the text still to be scanned when the walk is at `path` below `node`
RECURSIVE ToScan(_, _)
ToScan(node, path) ==
    IF Len(path) = 1 THEN ScanFrom(node, path[1])
    ELSE ToScan(node.children[path[1] + 1], Tail(path))
         + ScanFrom(node, path[1] + 1)

\* the steps a walk of `n` takes when nothing is rewritten
RECURSIVE Steps(_)
RECURSIVE StepsFrom(_, _)
Steps(n) == IF n.type = "text" THEN 1 ELSE 2 + StepsFrom(n, 0)

StepsFrom(node, i) ==
    IF i >= Len(node.children) THEN 0
    ELSE Steps(node.children[i + 1]) + StepsFrom(node, i + 1)

\* the steps still to take when the walk is at `path` below `node`
RECURSIVE Rest(_, _)
Rest(node, path) ==
    IF Len(path) = 1 THEN 1 + StepsFrom(node, path[1])
    ELSE 1 + Rest(node.children[path[1] + 1], Tail(path))
         + StepsFrom(node, path[1] + 1)

\* in every scanned text the candidates of one term lie at strictly
\* increasing positions inside the case-folded text
CandidatesAdvance ==
    \A k \in 1..Len(log) : \A i, j \in 1..Len(log[k].matches) :
        (i < j /\ log[k].matches[i].termObj = log[k].matches[j].termObj) =>
            /\ log[k].matches[i].index < log[k].matches[j].index
            /\ log[k].matches[j].index < Len(toLowerCase(log[k].value))

\* a step of a running walk that rewrites a text leaves less text to scan;
\* any other step leaves no more text and fewer steps
WalkDecreases ==
    (visit.active /\ visit'.active) =>
        IF Len(log') > Len(log) /\ log'[Len(log')].inserted > 0
        THEN ToScan(tree', cursor') < ToScan(tree, cursor)
        ELSE /\ ToScan(tree', cursor') <= ToScan(tree, cursor)
             /\ Rest(tree', cursor') < Rest(tree, cursor)

\* C30: a transformer call ends: the candidates of a term advance strictly,
\* every rewrite leaves strictly less text to be scanned, every other step
\* brings the walk nearer to the end of the tree, and a call that has begun
\* returns.
C30_TransformTerminates ==
    /\ []CandidatesAdvance
    /\ [][WalkDecreases]_vars
    /\ [](visit.active => <>(~visit.active))

\* C30 witness: a call has returned in which a fragment a rewrite had
\* inserted was scanned again and rewritten in its turn.
C30_Witness ==
    /\ calls > 0
    /\ ~visit.active
    /\ \E k \in 1..Len(log) : VisitsInserted(k) /\ log[k].inserted > 0

\* the walk step by step leaves the tree and the log that visitChildren
\* computes for the tree the call began with
WalkAgrees ==
    (calls > 0 /\ ~visit.active) =>
        /\ tree = transformer(before).tree
        /\ log = transformer(before).log

====
